---- MODULE Spec2Model ----
(***************************************************************************)
(* A model of the Richards flow process kernel (Richards_PK) and of the    *)
(* MFD diffusion operator (OperatorDiffusionMFD) of Amanzi.                *)
(*                                                                         *)
(* Spec      : life cycle of Richards_PK (InitPK, InitPicard,              *)
(*             InitSteadyState, InitTransient, CalculateFlowDt, Advance,   *)
(*             CommitState).                                               *)
(* SpecOp    : OperatorDiffusionMFD on the face+cell schema                *)
(*             (UpdateMatrices, ApplyBCs) on a mesh of two cells.          *)
(* SpecMass  : OperatorDiffusionMFD::CreateMassMatrices_ and its chain of  *)
(*             discretization variants.                                    *)
(* SpecCfg   : setup from parameter lists (the constructor of Richards_PK, *)
(*             OperatorDiffusionMFD::InitDiffusion_).                      *)
(* SpecLED   : Richards_PK::ImproveAlgebraicConsistency on a ring of cells.*)
(* SpecTPFA  : OperatorDiffusionMFD::UpdateMatricesTPFA_.                  *)
(* SpecFac   : the framework preferences of MeshFactory.                   *)
(* SpecPrec  : Richards_PK::ComputePreconditionerMFD, call by call.        *)
(***************************************************************************)
EXTENDS Integers, Sequences, FiniteSets, TLC

(***************************************************************************)
(* Bounds of the model.                                                    *)
(***************************************************************************)
\* largest value of the step counter num_itrs that is explored
MaxItrs == 2
\* pressures are drawn from 0..MaxP
MaxP == 1
\* step sizes handed in by the coupler / suggested by an integrator: 1..MaxDT
MaxDT == 1
\* cap of the running mass balance mass_bc
MaxMass == 3
\* boundary values are drawn from 1..MaxV
MaxV == 1
\* number of ApplyBCs calls in one run
MaxApply == 1
\* longest "schema" array of a parameter list
MaxSchemaLen == 2
\* saturations are drawn from 0..MaxWs
MaxWs == 2
\* the components of a permeability tensor are drawn from 0..MaxK
MaxK == 2
\* longest framework preference list
MaxPref == 2
\* number of ComputePreconditionerMFD calls in one run
MaxEvals == 3
\* the cell values of DeriveFaceValuesFromCellValues are drawn from 0..MaxU
MaxU == 2
\* the entries of its solution vectors are drawn from 0..MaxSol
MaxSol == 1
\* UpdatePreconditioner calls between two Residual evaluations
MaxJac == 2

(***************************************************************************)
(* Program constants.                                                      *)
(***************************************************************************)
\* factor of CalculateFlowDt, "dT *= 1e+4"
PicardFactor == 10000
\* fluid density rho = *(FS->fluid_density())
Rho == 2

FLOW_STATUS_INIT == "INIT"
FLOW_STATUS_STEADY_STATE_INIT == "STEADY_STATE_INIT"
FLOW_STATUS_TRANSIENT_STATE_INIT == "TRANSIENT_STATE_INIT"
FLOW_STATUS_TRANSIENT_STATE_COMPLETE == "TRANSIENT_STATE_COMPLETE"
FlowStatuses ==
  {FLOW_STATUS_INIT, FLOW_STATUS_STEADY_STATE_INIT,
   FLOW_STATUS_TRANSIENT_STATE_INIT, FLOW_STATUS_TRANSIENT_STATE_COMPLETE}

FLOW_TIME_INTEGRATION_PICARD == "PICARD"
FLOW_TIME_INTEGRATION_BDF1 == "BDF1"
FLOW_TIME_INTEGRATION_BDF2 == "BDF2"
TIMethods ==
  {FLOW_TIME_INTEGRATION_PICARD, FLOW_TIME_INTEGRATION_BDF1, FLOW_TIME_INTEGRATION_BDF2}

\* the null integrator pointer
NULL == "NULL"

FLOW_RELATIVE_PERM_CENTERED == "CENTERED"
FLOW_RELATIVE_PERM_UPWIND_GRAVITY == "UPWIND_GRAVITY"
KrelMethods == {FLOW_RELATIVE_PERM_CENTERED, FLOW_RELATIVE_PERM_UPWIND_GRAVITY}

\* the methods of the Krylov solver
AZ_cg == "AZ_cg"
AZ_gmres == "AZ_gmres"

DTs == 1..MaxDT
\* the initial step size dT0 of the phases
InitialDTs == {MaxDT}
\* the largest step size that is explored: a step of DTs inflated once
DTCap == MaxDT * PicardFactor

VARIABLES
  initialized,      \* InitPK has allocated matrix_, preconditioner_, solution
  crashed,          \* the process died on a null integrator pointer
  flow_status_,
  ti_method, ti_method_sss, ti_method_trs, ti_method_igs,
  num_itrs, block_picard,
  dT, dTnext,
  solution,         \* [cells, faces]
  FS,               \* the flow state: [pressure, lambda]
  water_saturation, prev_water_saturation,   \* the saturations of the flow state
  darcy_flux,       \* the Darcy flux of the flow state, per owned face
  assembly,         \* per operator: how far the assembly of its global matrices is
  mass_bc,
  bdf1_dae, bdf2_dae,   \* NULL or the history held by the integrator object
  matrix_,          \* what the local matrices of matrix_ hold
  Krel_method,      \* the relative-permeability policy
  is_matrix_symmetric,
  solver,           \* NULL or the method of the AztecOO solver
  calls,            \* the helpers called by the Advance performed last, in order
  ierr              \* <<the local ierr of the Advance performed last>>, or <<>>

varsPK ==
  <<initialized, crashed, flow_status_, ti_method, ti_method_sss, ti_method_trs,
    ti_method_igs, num_itrs, block_picard, dT, dTnext, solution, FS,
    mass_bc, bdf1_dae, bdf2_dae, matrix_, Krel_method, is_matrix_symmetric,
    solver, water_saturation, prev_water_saturation, darcy_flux, assembly,
    calls, ierr>>

VARIABLES
  upwind_, scaled_constraint_,      \* configuration of the diffusion operator
  k_cell, k_face, k_twin,           \* components of the coefficient k_, or null
  bc_model, bc_value, bc_mixed,     \* the boundary tables, per face
  matrices, matrices_shadow,        \* local_op_: per cell
  rhs_face, rhs_cell,               \* global_op_->rhs()
  n_apply                           \* number of ApplyBCs calls so far

varsOp ==
  <<upwind_, scaled_constraint_, k_cell, k_face, k_twin, bc_model, bc_value,
    bc_mixed, matrices, matrices_shadow, rhs_face, rhs_cell, n_apply>>

VARIABLES
  surface_mesh,                     \* cell dimension differs from space dimension
  mfd_primary_, mfd_secondary_,     \* the configured discretization variants
  Wff_cells_,                       \* per cell: the status of the stored matrix
  invoked,                          \* the variants invoked, in order
  mass_result                       \* "none", "done" or the message thrown

varsMass ==
  <<surface_mesh, mfd_primary_, mfd_secondary_, Wff_cells_, invoked, mass_result>>

VARIABLES
  global_list,                      \* the sublists of the list given to Richards_PK
  pk_result,                        \* "none", "constructed" or the message thrown
  plist,                            \* the list given to InitDiffusion_
  op_result,                        \* "none", "initialized" or the message thrown
  local_op_schema_, global_op_schema_

varsCfg ==
  <<global_list, pk_result, plist, op_result, local_op_schema_, global_op_schema_>>

VARIABLES
  ws, ws_prev, flux                 \* the arguments of ImproveAlgebraicConsistency

varsLED == <<ws, ws_prev, flux>>

VARIABLES
  K_,                               \* the permeability tensors, per cell, or null
  Ttmp,                             \* the face vector T of UpdateMatricesTPFA_
  face_matrices                     \* local_op_->matrices of the face schema

varsTPFA == <<K_, Ttmp, face_matrices>>

VARIABLES
  available,        \* the mesh frameworks compiled into the build
  my_preference,    \* MeshFactory: the frameworks preferred, in order
  thrown,           \* "none" or the exception the last call has thrown
  check             \* the outcome of the CHECK of the last check_preference

varsFac == <<available, my_preference, thrown, check>>

VARIABLES
  prec_running,     \* ComputePreconditionerMFD is being executed
  prec_op,          \* its argument matrix_operator
  prec_flag,        \* its argument flag_update_ML
  prec_log,         \* the calls it has made so far, in order
  n_evals           \* the number of ComputePreconditionerMFD calls so far

varsPrec == <<prec_running, prec_op, prec_flag, prec_log, n_evals>>

VARIABLES
  cells_owned,      \* the mesh of the process: cells 0 .. cells_owned - 1 are owned
  ucells, ufaces    \* the arguments of DeriveFaceValuesFromCellValues

varsDFV == <<cells_owned, ucells, ufaces>>

VARIABLES
  op_,              \* the Mini_Diffusion1D: [k, dkdp, diag, up, down, rhs]
  rhs0_,            \* NonlinearProblem: the right-hand side given to the constructor
  bcs_,             \* NonlinearProblem: [bcl, type_l, bcr, type_r]
  residual,         \* <<u, f>> of the Residual evaluated last, or <<>>
  remembered,       \* <<u, f>> of an earlier Residual, or <<>>
  n_jac             \* UpdatePreconditioner calls since the last Residual

varsNL == <<op_, rhs0_, bcs_, residual, remembered, n_jac>>

VARIABLES
  Wff_skew,         \* what the MFD engine adds to the entries of Wff above the diagonal
  flux_data         \* the face component of the flux vector given to UpdateFlux

varsFlux == <<Wff_skew, flux_data>>

varsAux == <<varsLED, varsTPFA, varsFac, varsPrec, varsDFV, varsNL, varsFlux>>

othersPK == <<varsOp, varsMass, varsCfg, varsAux>>
othersOp == <<varsPK, varsMass, varsCfg, varsAux>>
othersMass == <<varsPK, varsOp, varsCfg, varsAux>>
othersLED == <<varsPK, varsOp, varsMass, varsCfg, varsTPFA, varsFac, varsPrec, varsDFV, varsNL, varsFlux>>
othersTPFA == <<varsPK, varsOp, varsMass, varsCfg, varsLED, varsFac, varsPrec, varsDFV, varsNL, varsFlux>>
othersFac == <<varsPK, varsOp, varsMass, varsCfg, varsLED, varsTPFA, varsPrec, varsDFV, varsNL, varsFlux>>
othersPrec == <<varsPK, varsOp, varsMass, varsCfg, varsLED, varsTPFA, varsFac, varsDFV, varsNL, varsFlux>>
othersDFV == <<varsPK, varsOp, varsMass, varsCfg, varsLED, varsTPFA, varsFac, varsPrec, varsNL, varsFlux>>
othersNL == <<varsPK, varsOp, varsMass, varsCfg, varsLED, varsTPFA, varsFac, varsPrec, varsDFV, varsFlux>>
othersFlux == <<varsPK, varsOp, varsMass, varsCfg, varsLED, varsTPFA, varsFac, varsPrec, varsDFV, varsNL>>

vars == <<varsPK, varsOp, varsMass, varsCfg, varsAux>>

\* the solution vectors and flow states that are explored: the two extreme
\* ones; cell and face components differ, so that exchanging them is visible
Solutions == {[cells |-> p, faces |-> MaxP - p] : p \in {0, MaxP}}
FlowStates == {[pressure |-> p, lambda |-> MaxP - p] : p \in {0, MaxP}}

(***************************************************************************)
(* Saturation as a function of pressure (the water retention model is an   *)
(* external collaborator): monotone in the pressure.                       *)
(***************************************************************************)
DeriveSaturationFromPressure(p) == p + 1

\* the owned faces of the mesh of the kernel
nfaces_owned == 2
OwnedFaces == 0..(nfaces_owned - 1)

(***************************************************************************)
(* Matrix_MFD::DeriveDarcyMassFlux: the diffusive mass flux through every  *)
(* face, driven by the difference of the cell and face pressures.  The     *)
(* permeability was scaled by rho / mu, the flux is a multiple of rho.     *)
(***************************************************************************)
DeriveDarcyMassFlux(sol) ==
  [f \in OwnedFaces |-> Rho * (f + 1) * (sol.cells - sol.faces)]

\* AddGravityFluxes_DarcyFlux: adds the gravity contribution of every face
AddGravityFluxes_DarcyFlux(fl) == [f \in OwnedFaces |-> fl[f] + Rho * (f + 2)]

(***************************************************************************)
(* The two operators of the kernel.  A newly constructed Matrix_MFD is     *)
(* "new", SymbolicAssembleGlobalMatrices makes it "symbolic",              *)
(* AssembleGlobalMatrices makes it "assembled", or "unsymbolic" when the   *)
(* sparsity pattern was never built.                                       *)
(***************************************************************************)
Operators == {"matrix", "preconditioner"}

NewOperators == [op \in Operators |-> "new"]

\* a variant of SymbolicAssembleGlobalMatrices that builds nothing
SymbolicSkipped(st, op) == st

SymbolicAssembleGlobalMatrices(st, op) ==
  [st EXCEPT ![op] = IF @ = "unsymbolic" THEN @ ELSE "symbolic"]

AssembleGlobalMatrices(st, op) ==
  [st EXCEPT ![op] = IF @ \in {"new", "unsymbolic"} THEN "unsymbolic" ELSE "assembled"]

\* a newly constructed BDF1Dae / BDF2::Dae object: it holds no history
NewDae == "empty"

\* set_initial_state on the integrator behind pointer p
SetInitialState(p) == "seeded"

\* bdfX_step followed by commit_solution on the integrator behind p
BdfStep(p) == "stepped"

(***************************************************************************)
(* Richards_PK::Richards_PK: the state after construction.  The            *)
(* constructor assigns neither flow_status_, ti_method, num_itrs, dT,      *)
(* dTnext nor mass_bc: they hold indeterminate values.  The schemes of the *)
(* steady-state and transient phases come from the parameter list; the     *)
(* initial guess of InitPicard is computed by Picard iterations.  The      *)
(* configurations explored: every pair of schemes with the upwind policy   *)
(* (the default), and the centered policy with the Picard schemes.  The    *)
(* saturations of the flow state are those of InitializeAuxiliaryData.     *)
(***************************************************************************)
InitPKState ==
  /\ initialized = FALSE
  /\ crashed = FALSE
  /\ flow_status_ = "UNDEFINED"
  /\ ti_method \in TIMethods \cup {"OTHER"}
  /\ ti_method_sss \in TIMethods
  /\ ti_method_trs \in TIMethods
  /\ ti_method_igs = FLOW_TIME_INTEGRATION_PICARD
  /\ num_itrs \in {0, 1}
  /\ block_picard = 1
  /\ dT = 1
  /\ dTnext = 1
  /\ solution = [cells |-> 0, faces |-> 0]
  /\ FS \in FlowStates
  /\ mass_bc = 0
  /\ bdf1_dae = NULL
  /\ bdf2_dae = NULL
  /\ matrix_ = "empty"
  /\ Krel_method \in KrelMethods
  /\ Krel_method = FLOW_RELATIVE_PERM_CENTERED
       => /\ ti_method_sss = FLOW_TIME_INTEGRATION_PICARD
          /\ ti_method_trs = FLOW_TIME_INTEGRATION_PICARD
  /\ is_matrix_symmetric \in BOOLEAN
  /\ solver = NULL
  /\ water_saturation = DeriveSaturationFromPressure(FS.pressure)
  /\ prev_water_saturation = water_saturation
  /\ darcy_flux = [f \in OwnedFaces |-> 0]
  /\ assembly = NewOperators
  /\ calls = <<>>
  /\ ierr = <<>>

(***************************************************************************)
(* Richards_PK::InitPK.  ProcessParameterList reads the schemes, they are  *)
(* inputs of the run and already held by the state.                        *)
(***************************************************************************)
InitPK ==
  /\ ~initialized /\ ~crashed
  /\ initialized' = TRUE
  /\ solution' = [cells |-> 0, faces |-> 0]
  /\ flow_status_' = FLOW_STATUS_INIT
  /\ calls' = <<>>
  /\ ierr' = <<>>
  /\ UNCHANGED <<crashed, ti_method, ti_method_sss, ti_method_trs, ti_method_igs,
                 num_itrs, block_picard, dT, dTnext, FS, mass_bc,
                 bdf1_dae, bdf2_dae, matrix_>>
  /\ is_matrix_symmetric' = (Krel_method = FLOW_RELATIVE_PERM_CENTERED)
  /\ UNCHANGED <<Krel_method, solver>>
  /\ UNCHANGED <<water_saturation, prev_water_saturation, darcy_flux>>
  /\ assembly' = SymbolicAssembleGlobalMatrices(NewOperators, "matrix")
  /\ UNCHANGED othersPK

(***************************************************************************)
(* Richards_PK::InitPicard(T0).  AdvanceToSteadyState_Picard iterates on   *)
(* the solution; flow_status_ is not assigned.                             *)
(***************************************************************************)
InitPicard ==
  /\ initialized /\ ~crashed
  /\ \E darcy \in BOOLEAN, dT0 \in InitialDTs, sol \in Solutions :
       /\ FS' = IF darcy THEN [FS EXCEPT !.pressure = sol.cells] ELSE FS
       /\ solution' = sol
       /\ dT' = dT0
       /\ water_saturation' = DeriveSaturationFromPressure(sol.cells)
       /\ prev_water_saturation' = DeriveSaturationFromPressure(sol.cells)
  /\ matrix_' = "mass"
  /\ ti_method' = ti_method_igs
  /\ num_itrs' = 0
  /\ block_picard' = 0
  /\ calls' = <<>>
  /\ ierr' = <<>>
  /\ UNCHANGED <<initialized, crashed, flow_status_, ti_method_sss, ti_method_trs,
                 ti_method_igs, dTnext, mass_bc, bdf1_dae, bdf2_dae>>
  /\ solver' = AZ_gmres
  /\ assembly' = SymbolicAssembleGlobalMatrices(assembly, "preconditioner")
  /\ UNCHANGED <<Krel_method, is_matrix_symmetric, darcy_flux>>
  /\ UNCHANGED othersPK

(***************************************************************************)
(* The integrator pointer after the scheme selection of InitSteadyState:   *)
(* "if (bdfX_dae == NULL) bdfX_dae = new ...".                             *)
(***************************************************************************)
SteadyStateDae(p) == IF p = NULL THEN NewDae ELSE p

(***************************************************************************)
(* The integrator pointer after the scheme selection of InitTransient:     *)
(* "if (bdfX_dae != NULL) delete bdfX_dae; bdfX_dae = new ...".            *)
(***************************************************************************)
TransientDae(p) == NewDae

(***************************************************************************)
(* The solver after the scheme selection of InitSteadyState and            *)
(* InitTransient: "else if (solver == NULL) { solver = new AztecOO; ...    *)
(* SetAztecOption(AZ_solver, AZ_cg) }" is the branch of a scheme that is   *)
(* neither BDF2 nor BDF1.                                                  *)
(***************************************************************************)
SolverAfterInit(method, s) ==
  IF method \notin {FLOW_TIME_INTEGRATION_BDF2, FLOW_TIME_INTEGRATION_BDF1} /\ s = NULL
  THEN AZ_cg ELSE s

(***************************************************************************)
(* Richards_PK::InitSteadyState(T0, dT0).                                  *)
(***************************************************************************)
InitSteadyState ==
  /\ initialized /\ ~crashed
  /\ bdf1_dae' = IF ti_method_sss = FLOW_TIME_INTEGRATION_BDF1
                 THEN SteadyStateDae(bdf1_dae) ELSE bdf1_dae
  /\ bdf2_dae' = IF ti_method_sss = FLOW_TIME_INTEGRATION_BDF2
                 THEN SteadyStateDae(bdf2_dae) ELSE bdf2_dae
  /\ \E darcy \in BOOLEAN, dT0 \in InitialDTs, sol \in Solutions :
       /\ dT' = dT0
       /\ IF darcy
          THEN /\ solution' = sol
               /\ FS' = [FS EXCEPT !.pressure = sol.cells]
          ELSE /\ solution' = [cells |-> FS.pressure, faces |-> FS.lambda]
               /\ FS' = FS
  /\ water_saturation' = DeriveSaturationFromPressure(FS'.pressure)
  /\ matrix_' = "mass"
  /\ ti_method' = ti_method_sss
  /\ num_itrs' = 0
  /\ block_picard' = 0
  /\ flow_status_' = FLOW_STATUS_STEADY_STATE_INIT
  /\ calls' = <<>>
  /\ ierr' = <<>>
  /\ UNCHANGED <<initialized, crashed, ti_method_sss, ti_method_trs, ti_method_igs,
                 dTnext, mass_bc>>
  /\ solver' = SolverAfterInit(ti_method_sss, solver)
  /\ assembly' = SymbolicAssembleGlobalMatrices(assembly, "preconditioner")
  /\ UNCHANGED <<Krel_method, is_matrix_symmetric, prev_water_saturation,
                 darcy_flux>>
  /\ UNCHANGED othersPK

(***************************************************************************)
(* Richards_PK::InitTransient(T0, dT0).  mass_bc restarts from the water   *)
(* mass stored in the cells.                                               *)
(***************************************************************************)
\* a variant of TotalWaterMass that adds to the mass held before
TotalWaterMassAdded(mass, saturation) == mass + saturation * Rho

\* "mass_bc = 0.0; for (...) mass_bc += water_saturation[c] * rho * phi[c] *
\* mesh_->cell_volume(c)", with porosity and volume 1; mass is the value
\* mass_bc holds before
TotalWaterMass(mass, saturation) == 0 + saturation * Rho

InitTransient ==
  /\ initialized /\ ~crashed
  /\ bdf1_dae' = IF ti_method_trs = FLOW_TIME_INTEGRATION_BDF1
                 THEN TransientDae(bdf1_dae) ELSE bdf1_dae
  /\ bdf2_dae' = IF ti_method_trs = FLOW_TIME_INTEGRATION_BDF2
                 THEN TransientDae(bdf2_dae) ELSE bdf2_dae
  /\ \E dT0 \in InitialDTs : dT' = dT0
  /\ solution' = [cells |-> FS.pressure, faces |-> FS.lambda]
  /\ water_saturation' = DeriveSaturationFromPressure(FS.pressure)
  /\ mass_bc' = TotalWaterMass(mass_bc, DeriveSaturationFromPressure(FS.pressure))
  /\ matrix_' = "mass"
  /\ ti_method' = ti_method_trs
  /\ num_itrs' = 0
  /\ block_picard' = 0
  /\ flow_status_' = FLOW_STATUS_TRANSIENT_STATE_INIT
  /\ calls' = <<>>
  /\ ierr' = <<>>
  /\ UNCHANGED <<initialized, crashed, ti_method_sss, ti_method_trs, ti_method_igs,
                 dTnext, FS>>
  /\ solver' = SolverAfterInit(ti_method_trs, solver)
  /\ assembly' = SymbolicAssembleGlobalMatrices(assembly, "preconditioner")
  /\ UNCHANGED <<Krel_method, is_matrix_symmetric, prev_water_saturation,
                 darcy_flux>>
  /\ UNCHANGED othersPK

(***************************************************************************)
(* Richards_PK::CalculateFlowDt.                                           *)
(***************************************************************************)
\* a variant of FlowDt that never inflates the step size
FlowDtPlain(method, blocked, dt) == dt

FlowDt(method, blocked, dt) ==
  IF method = FLOW_TIME_INTEGRATION_PICARD /\ blocked = 1 THEN dt * PicardFactor ELSE dt

CalculateFlowDt ==
  /\ initialized /\ ~crashed
  /\ FlowDt(ti_method, block_picard, dT) <= DTCap
  /\ dT' = FlowDt(ti_method, block_picard, dT)
  /\ calls' = <<>>
  /\ ierr' = <<>>
  /\ UNCHANGED <<initialized, crashed, flow_status_, ti_method, ti_method_sss,
                 ti_method_trs, ti_method_igs, num_itrs, block_picard,
                 dTnext, solution, FS, mass_bc, bdf1_dae, bdf2_dae, matrix_>>
  /\ UNCHANGED <<Krel_method, is_matrix_symmetric, solver>>
  /\ UNCHANGED <<water_saturation, prev_water_saturation, darcy_flux, assembly>>
  /\ UNCHANGED othersPK

(***************************************************************************)
(* Richards_PK::ComputePreconditionerMFD(u, matrix_operator, Tp, dTp,      *)
(* flag_update_ML): the calls it makes, in order.                          *)
(***************************************************************************)
\* a variant of ComputePreconditionerMFD that assembles before the boundary
\* conditions are applied
ComputePreconditionerMFDLate(op, flag_update_ML) ==
  <<"CalculateRelativePermeability", "UpdateBoundaryConditions",
    op \o ".CreateMFDstiffnessMatrices", op \o ".CreateMFDrhsVectors",
    "AddGravityFluxes_MFD", op \o ".AssembleGlobalMatrices",
    op \o ".ApplyBoundaryConditions">>

ComputePreconditionerMFD(op, flag_update_ML) ==
  <<"CalculateRelativePermeability", "UpdateBoundaryConditions",
    op \o ".CreateMFDstiffnessMatrices", op \o ".CreateMFDrhsVectors",
    "AddGravityFluxes_MFD">>
  \o (IF flag_update_ML THEN <<"AddTimeDerivative_MFD">> ELSE <<>>)
  \o <<op \o ".ApplyBoundaryConditions", op \o ".AssembleGlobalMatrices">>
  \o (IF flag_update_ML
      THEN <<op \o ".ComputeSchurComplement", op \o ".UpdatePreconditioner">>
      ELSE <<>>)

(***************************************************************************)
(* The execution of ComputePreconditionerMFD, one call after the other:    *)
(* every residual or preconditioner evaluation enters it with an operator  *)
(* and a flag.                                                             *)
(***************************************************************************)
EnterComputePreconditionerMFD(op, flag_update_ML) ==
  /\ ~prec_running
  /\ n_evals < MaxEvals
  /\ prec_running' = TRUE
  /\ prec_op' = op
  /\ prec_flag' = flag_update_ML
  /\ prec_log' = <<>>
  /\ n_evals' = n_evals + 1
  /\ UNCHANGED othersPrec

StepComputePreconditionerMFD ==
  /\ prec_running
  /\ LET body == ComputePreconditionerMFD(prec_op, prec_flag)
     IN /\ prec_log' = Append(prec_log, body[Len(prec_log) + 1])
        /\ prec_running' = (Len(prec_log) + 1 < Len(body))
  /\ UNCHANGED <<prec_op, prec_flag, n_evals>>
  /\ UNCHANGED othersPrec

InitPrecState ==
  /\ prec_running = FALSE
  /\ prec_op = "matrix"
  /\ prec_flag = FALSE
  /\ prec_log = <<>>
  /\ n_evals = 0

\* Richards_PK::ComputeUDot
ComputeUDot ==
  <<"ComputeUDot">> \o ComputePreconditionerMFD("matrix", FALSE)
  \o <<"matrix.ComputeNegativeResidual">>

(***************************************************************************)
(* The flow status Advance leaves behind.                                  *)
(***************************************************************************)
\* a variant of AdvanceStatus that leaves the status alone
AdvanceStatusKept(status) == status

AdvanceStatus(status) == FLOW_STATUS_TRANSIENT_STATE_COMPLETE

\* a variant of IsFirstStep that takes every step for the first one
IsFirstStepAlways(n) == TRUE

\* the test of the initialization block, "if (num_itrs == 0)"
IsFirstStep(n) == n = 0

\* the values update_precon(time, *solution, dT, ierr) leaves in ierr: 0 on
\* success, another value when the preconditioner could not be built
PreconCodes == {0, 1}

\* the value Advance returns, "return 0"
AdvanceReturn(code) == 0

\* a variant of AdvanceItrs that does not count the step
AdvanceItrsKept(n) == n

\* the step counter after Advance, "num_itrs++"
AdvanceItrs(n) == n + 1

(***************************************************************************)
(* Richards_PK::Advance(dT_MPC).  A BDF scheme whose integrator pointer is *)
(* NULL dereferences it, and the first step of a kernel whose mass         *)
(* matrices were never created reads them: the process dies.  The first    *)
(* step assembles the linear system in matrix_ (ComputeUDot) and the       *)
(* preconditioner (update_precon).                                         *)
(***************************************************************************)
Advance(dT_MPC) ==
  /\ initialized /\ ~crashed
  /\ num_itrs < MaxItrs
  /\ LET first == IsFirstStep(num_itrs)
         bdf1 == (ti_method = FLOW_TIME_INTEGRATION_BDF1)
         bdf2 == (ti_method = FLOW_TIME_INTEGRATION_BDF2)
         picard == (ti_method = FLOW_TIME_INTEGRATION_PICARD)
         dies == \/ (bdf1 /\ bdf1_dae = NULL)
                 \/ (bdf2 /\ bdf2_dae = NULL)
                 \/ (first /\ matrix_ = "empty")
         steady == first /\ picard /\ flow_status_ = FLOW_STATUS_STEADY_STATE_INIT
         blocked == IF steady THEN 1 ELSE block_picard
         steps == (bdf1 \/ bdf2 \/ (picard /\ blocked = 0))
     IN IF dies
        THEN /\ crashed' = TRUE
             /\ UNCHANGED <<initialized, flow_status_, ti_method, ti_method_sss,
                            ti_method_trs, ti_method_igs, num_itrs,
                            block_picard, dT, dTnext, solution, FS, mass_bc, bdf1_dae,
                            bdf2_dae, matrix_, assembly, calls, ierr>>
        ELSE /\ dT' = dT_MPC
             /\ block_picard' = blocked
             /\ matrix_' = IF first THEN "system" ELSE matrix_
             /\ assembly' =
                  IF first
                  THEN AssembleGlobalMatrices(
                         AssembleGlobalMatrices(assembly, "matrix"), "preconditioner")
                  ELSE assembly
             /\ bdf1_dae' = IF bdf1
                            THEN BdfStep(IF first THEN SetInitialState(bdf1_dae)
                                         ELSE bdf1_dae)
                            ELSE bdf1_dae
             /\ bdf2_dae' = IF bdf2
                            THEN BdfStep(IF first THEN SetInitialState(bdf2_dae)
                                         ELSE bdf2_dae)
                            ELSE bdf2_dae
             /\ IF steady \/ steps
                THEN solution' \in Solutions
                ELSE solution' = solution
             /\ IF steps
                THEN dTnext' \in DTs
                ELSE IF picard THEN dTnext' = dT_MPC ELSE dTnext' = dTnext
             /\ calls' =
                  <<"Advance">>
                  \o (IF first
                      THEN ComputeUDot
                           \o (IF bdf2 THEN <<"bdf2_dae.set_initial_state">>
                               ELSE IF bdf1 THEN <<"bdf1_dae.set_initial_state">>
                               ELSE IF steady THEN <<"AdvanceToSteadyState">>
                               ELSE <<>>)
                           \o <<"update_precon">>
                      ELSE <<>>)
                  \o (IF bdf2 THEN <<"bdf2_dae.bdf2_step", "bdf2_dae.commit_solution">>
                      ELSE IF bdf1 THEN <<"bdf1_dae.bdf1_step", "bdf1_dae.commit_solution">>
                      ELSE IF picard /\ blocked = 0 THEN <<"PicardTimeStep">>
                      ELSE <<>>)
             /\ ierr' \in (IF first THEN {<<code>> : code \in PreconCodes} ELSE {<<>>})
             /\ num_itrs' = AdvanceItrs(num_itrs)
             /\ flow_status_' = AdvanceStatus(flow_status_)
             /\ UNCHANGED <<initialized, crashed, ti_method, ti_method_sss,
                            ti_method_trs, ti_method_igs, FS, mass_bc>>
  /\ UNCHANGED <<Krel_method, is_matrix_symmetric, solver>>
  /\ UNCHANGED <<water_saturation, prev_water_saturation, darcy_flux>>
  /\ UNCHANGED othersPK

(***************************************************************************)
(* Richards_PK::CommitState(FS_MPC).  The mass balance is updated only on  *)
(* rank 0 at high verbosity (report); inflow is the value of               *)
(* WaterVolumeChangePerSecond(bc_markers, flux).  The local matrices of    *)
(* matrix_ are replaced by the stiffness matrices of the new pressure.     *)
(***************************************************************************)
CommitMass(report, mass, inflow, dt) ==
  IF report THEN mass + inflow * Rho * dt ELSE mass

\* a variant of CommitFlux that leaves the mass flux as it is
CommitFluxKept(m) == m

\* mass flux to volumetric flux, "flux[c] /= rho"
CommitFlux(m) == m \div Rho

\* a variant of CommitDt that keeps the step size
CommitDtKept(dt, dtnext) == dt

\* the step size after CommitState, "dT = dTnext"
CommitDt(dt, dtnext) == dtnext

CommitState ==
  /\ initialized /\ ~crashed
  /\ matrix_ # "empty"
  /\ FS' = [pressure |-> solution.cells, lambda |-> solution.faces]
  /\ matrix_' = "stiffness"
  /\ \E report \in BOOLEAN, inflow \in {0, 1} :
       /\ CommitMass(report, mass_bc, inflow, dT) <= MaxMass
       /\ mass_bc' = CommitMass(report, mass_bc, inflow, dT)
  /\ dT' = CommitDt(dT, dTnext)
  /\ calls' = <<>>
  /\ ierr' = <<>>
  /\ UNCHANGED <<initialized, crashed, flow_status_, ti_method, ti_method_sss,
                 ti_method_trs, ti_method_igs, num_itrs, block_picard,
                 dTnext, solution, bdf1_dae, bdf2_dae>>
  /\ UNCHANGED <<Krel_method, is_matrix_symmetric, solver>>
  /\ UNCHANGED assembly
  /\ prev_water_saturation' = water_saturation
  /\ water_saturation' = DeriveSaturationFromPressure(FS'.pressure)
  /\ darcy_flux' =
       [f \in OwnedFaces |->
          CommitFlux(AddGravityFluxes_DarcyFlux(DeriveDarcyMassFlux(solution))[f])]
  /\ UNCHANGED othersPK

(***************************************************************************)
(* Richards_PK::ImproveAlgebraicConsistency(flux, ws_prev, ws).            *)
(*                                                                         *)
(* The mesh: a ring of cells, cell c has the faces c (direction -1) and    *)
(* c + 1 modulo the number of cells (direction +1); every face has two     *)
(* cells.                                                                  *)
(***************************************************************************)
\* number of owned cells of the ring
ncells_ring == 4
RingCells == 0..(ncells_ring - 1)
RingFaces == 0..(ncells_ring - 1)

\* mesh_->cell_get_faces_and_dirs(c, &faces, &dirs)
RingCellFaces(c) == <<c, (c + 1) % ncells_ring>>
RingCellDirs(c) == <<0 - 1, 1>>

\* mfd.cell_get_face_adj_cell(c, f): the other cell of face f
cell_get_face_adj_cell(c, f) ==
  IF f = c THEN (c + ncells_ring - 1) % ncells_ring ELSE (c + 1) % ncells_ring

StdMin(a, b) == IF b < a THEN b ELSE a
StdMax(a, b) == IF a < b THEN b ELSE a

\* the loop "calculate min/max values" of cell c on the vector w, from
\* local face n on; lim is <<wsmin, wsmax>>
RECURSIVE MinMaxValues(_, _, _, _)
MinMaxValues(w, c, n, lim) ==
  IF n > Len(RingCellFaces(c)) THEN lim
  ELSE LET c2 == cell_get_face_adj_cell(c, RingCellFaces(c)[n])
       IN MinMaxValues(w, c, n + 1, <<StdMin(lim[1], w[c2]), StdMax(lim[2], w[c2])>>)

\* "double factor = dT / (phi[c] * mesh_->cell_volume(c))"
LedFactor(c) == 1

\* the loop "predict new saturation" of cell c, from local face n on
RECURSIVE PredictSaturation(_, _, _)
PredictSaturation(c, n, acc) ==
  IF n > Len(RingCellFaces(c)) THEN acc
  ELSE PredictSaturation(c, n + 1,
         acc - LedFactor(c) * flux[RingCellFaces(c)[n]] * RingCellDirs(c)[n])

\* the body of the loop over cells for cell c: w is the vector ws
ImproveCell(w, c) ==
  LET lim == MinMaxValues(w, c, 1, <<w[c], w[c]>>)
      predicted == PredictSaturation(c, 1, ws_prev[c])
  IN [w EXCEPT ![c] = StdMin(StdMax(predicted, lim[1]), lim[2])]

\* the loop "for (int c = 0; c < ncells_owned; c++)", from c on
RECURSIVE ImproveCells(_, _)
ImproveCells(w, c) ==
  IF c = ncells_ring THEN w ELSE ImproveCells(ImproveCell(w, c), c + 1)

InitLEDState ==
  /\ ws \in [RingCells -> 0..MaxWs]
  /\ ws_prev \in [RingCells -> {0, MaxWs}]
  /\ flux \in [RingFaces -> {0 - 1, 1}]

ImproveAlgebraicConsistency ==
  /\ ws' = ImproveCells(ws, 0)
  /\ UNCHANGED <<ws_prev, flux>>
  /\ UNCHANGED othersLED

(***************************************************************************)
(* OperatorDiffusionMFD, face+cell schema.                                 *)
(*                                                                         *)
(* The mesh: cell 0 has the faces 0, 1, 2 and cell 1 the faces 2, 3; face  *)
(* 2 is shared, the other faces lie on the boundary.                       *)
(***************************************************************************)
\* number of owned cells of the mesh
ncells_owned == 2
Cells == 0..(ncells_owned - 1)
Faces == 0..3
BoundaryFaces == {0, 1, 3}

\* mesh_->cell_get_faces(c, &faces), indexed from 0
CellGetFaces(c) == IF c = 0 THEN [n \in 0..2 |-> n] ELSE [n \in 0..1 |-> n + 2]
NumFaces(c) == Cardinality(DOMAIN CellGetFaces(c))

\* mesh_->face_get_cells(f, USED, &cells), indexed from 0
FaceGetCells(f) ==
  IF f = 2 THEN [i \in 0..1 |-> i] ELSE IF f = 3 THEN [i \in {0} |-> 1] ELSE [i \in {0} |-> 0]

\* mesh_->face_area(f)
FaceArea(f) == f + 1

\* the empty DenseMatrix and the null component of k_
EmptyMatrix == <<>>
null == <<>>

\* Wff_cells_[c], the inverse mass matrix of cell c: symmetric unless the
\* variant of the MFD engine that made it adds Wff_skew above the diagonal
Wff(c) ==
  [ij \in (0..(NumFaces(c) - 1)) \X (0..(NumFaces(c) - 1)) |->
     IF ij[1] = ij[2] THEN 10 + 4 * ij[1]
     ELSE 0 - 2 * (ij[1] + ij[2]) + (IF ij[1] < ij[2] THEN Wff_skew ELSE 0)]

OPERATOR_UPWIND_NONE == "UPWIND_NONE"
OPERATOR_UPWIND_FLUX == "UPWIND_FLUX"
OPERATOR_UPWIND_AMANZI_ARTIFICIAL_DIFFUSION == "UPWIND_AMANZI_ARTIFICIAL_DIFFUSION"
OPERATOR_UPWIND_AMANZI_DIVK == "UPWIND_AMANZI_DIVK"
OPERATOR_UPWIND_AMANZI_SECOND_ORDER == "UPWIND_AMANZI_SECOND_ORDER"

OPERATOR_BC_NONE == "BC_NONE"
OPERATOR_BC_DIRICHLET == "BC_DIRICHLET"
OPERATOR_BC_NEUMANN == "BC_NEUMANN"
OPERATOR_BC_MIXED == "BC_MIXED"
BCModels ==
  {OPERATOR_BC_NONE, OPERATOR_BC_DIRICHLET, OPERATOR_BC_NEUMANN, OPERATOR_BC_MIXED}

\* sum of F[0] .. F[k-1]
RECURSIVE SumTo(_, _)
SumTo(F, k) == IF k = 0 THEN 0 ELSE SumTo(F, k - 1) + F[k - 1]

(***************************************************************************)
(* UpdateMatricesMixed_: the coefficients kc and kf[n] of cell c.          *)
(***************************************************************************)
Kc(c) ==
  IF upwind_ \in {OPERATOR_UPWIND_AMANZI_ARTIFICIAL_DIFFUSION, OPERATOR_UPWIND_AMANZI_DIVK}
  THEN (IF k_cell # null THEN k_cell[c] ELSE 1)
  ELSE IF upwind_ = OPERATOR_UPWIND_NONE /\ k_cell # null THEN k_cell[c]
  ELSE 1

\* a variant of Kf that takes the coefficient of the face under every policy
KfFace(c, n) == k_face[CellGetFaces(c)[n]]

\* kf[n] of cell c on a mesh whose faces have the cell lists face_cells
KfOn(face_cells, c, n) ==
  LET f == CellGetFaces(c)[n]
  IN IF upwind_ = OPERATOR_UPWIND_AMANZI_ARTIFICIAL_DIFFUSION THEN Kc(c)
     ELSE IF upwind_ = OPERATOR_UPWIND_AMANZI_DIVK /\ k_twin = null THEN k_face[f]
     ELSE IF upwind_ = OPERATOR_UPWIND_AMANZI_DIVK /\ k_twin # null
          THEN (IF c = face_cells[f][0] THEN k_face[f] ELSE k_twin[f])
     ELSE IF upwind_ = OPERATOR_UPWIND_NONE /\ k_cell # null THEN Kc(c)
     ELSE IF upwind_ = OPERATOR_UPWIND_FLUX THEN k_face[f]
     ELSE 1

Kf(c, n) == KfOn([f \in Faces |-> FaceGetCells(f)], c, n)

(***************************************************************************)
(* UpdateMatricesMixed_: the local matrix Acell of cell c, of size         *)
(* (nfaces + 1) x (nfaces + 1); index nfaces is the cell unknown.  kf is   *)
(* the vector kf of the cell.                                              *)
(***************************************************************************)
AcellMixed(kf, c) ==
  LET nfaces == NumFaces(c)
      W == Wff(c)
      kc == Kc(c)
      L == 0..(nfaces - 1)
      \* not scaled constraint
      plain == [ij \in L \X L |-> W[ij] * kf[ij[1]]]
      plainRow == [n \in L |-> SumTo([m \in L |-> plain[<<n, m>>]], nfaces)]
      plainCol == [n \in L |-> SumTo([m \in L |-> plain[<<m, n>>]], nfaces)]
      \* scaled constraint
      scaledRow == [n \in L |-> SumTo([m \in L |-> W[<<n, m>>]], nfaces)]
      scaledCol == [n \in L |-> SumTo([m \in L |-> W[<<m, n>>] * kf[m]], nfaces)]
      \* artificial diffusion
      alpha == [n \in L |->
                  IF upwind_ = OPERATOR_UPWIND_AMANZI_ARTIFICIAL_DIFFUSION
                     /\ k_face[CellGetFaces(c)[n]] - kc > 0
                  THEN (k_face[CellGetFaces(c)[n]] - kc) * W[<<n, n>>] ELSE 0]
      \* divk
      divk == [ij \in L \X L |-> (W[ij] * kf[ij[1]] * kf[ij[2]]) \div kc]
      divkRow == [n \in L |-> SumTo([m \in L |-> divk[<<n, m>>]], nfaces)]
  IN [ij \in (0..nfaces) \X (0..nfaces) |->
        LET n == ij[1]
            m == ij[2]
        IN IF upwind_ = OPERATOR_UPWIND_AMANZI_DIVK
           THEN (IF n < nfaces /\ m < nfaces THEN divk[ij]
                 ELSE IF n < nfaces THEN 0 - divkRow[n]
                 ELSE IF m < nfaces THEN 0 - divkRow[m]
                 ELSE SumTo(divkRow, nfaces))
           ELSE IF ~scaled_constraint_
           THEN (IF n < nfaces /\ m < nfaces
                 THEN plain[ij] + (IF n = m THEN alpha[n] ELSE 0)
                 ELSE IF n < nfaces THEN 0 - plainRow[n] - alpha[n]
                 ELSE IF m < nfaces THEN 0 - plainCol[m] - alpha[m]
                 ELSE SumTo(plainRow, nfaces) + SumTo(alpha, nfaces))
           ELSE (IF n < nfaces /\ m < nfaces THEN W[ij]
                 ELSE IF n < nfaces THEN 0 - scaledRow[n]
                 ELSE IF m < nfaces THEN 0 - scaledCol[m]
                 ELSE SumTo([k \in L |-> scaledRow[k] * kf[k]], nfaces))]

\* "std::vector<double> kf(nfaces, 1.0)" of cell c, filled
KfVector(c) == [n \in 0..(NumFaces(c) - 1) |-> Kf(c, n)]

UpdateMatricesMixed_(c) == AcellMixed(KfVector(c), c)

(***************************************************************************)
(* UpdateMatricesMixedWithGrad_, the second-order upwind: the local matrix *)
(* Acell of cell c.  The mass matrix is recalculated by the MFD engine     *)
(* from the mean value kc and the gradient of the coefficient.             *)
(***************************************************************************)
\* mfd.MassMatrixInverseDivKScaled(c, Kc, kc, kgrad, Wff)
MassMatrixInverseDivKScaled(c, kc) ==
  [ij \in DOMAIN Wff(c) |-> Wff(c)[ij] \div kc]

\* the vector kf of cell c: the values of the faces, or with a twin
\* component the face value for the first cell of the face and the twin
\* value for the other
KfWithGrad(face_cells, c) ==
  [n \in 0..(NumFaces(c) - 1) |->
     LET f == CellGetFaces(c)[n]
     IN IF k_twin = null THEN k_face[f]
        ELSE IF c = face_cells[f][0] THEN k_face[f] ELSE k_twin[f]]

\* a variant of AcellMixedWithGrad that closes the face rows with the sums
\* of the columns
AcellMixedWithGradColumns(kf, c) ==
  LET nfaces == NumFaces(c)
      W == MassMatrixInverseDivKScaled(c, k_cell[c])
      L == 0..(nfaces - 1)
      tmp == [ij \in L \X L |-> W[ij] * kf[ij[1]] * kf[ij[2]]]
      colsum == [m \in L |-> SumTo([n \in L |-> tmp[<<n, m>>]], nfaces)]
  IN [ij \in (0..nfaces) \X (0..nfaces) |->
        IF ij[1] < nfaces /\ ij[2] < nfaces THEN tmp[ij]
        ELSE IF ij[1] < nfaces THEN 0 - colsum[ij[1]]
        ELSE IF ij[2] < nfaces THEN 0 - colsum[ij[2]]
        ELSE SumTo(colsum, nfaces)]

AcellMixedWithGrad(kf, c) ==
  LET nfaces == NumFaces(c)
      W == MassMatrixInverseDivKScaled(c, k_cell[c])
      L == 0..(nfaces - 1)
      tmp == [ij \in L \X L |-> W[ij] * kf[ij[1]] * kf[ij[2]]]
      rowsum == [n \in L |-> SumTo([m \in L |-> tmp[<<n, m>>]], nfaces)]
  IN [ij \in (0..nfaces) \X (0..nfaces) |->
        IF ij[1] < nfaces /\ ij[2] < nfaces THEN tmp[ij]
        ELSE IF ij[1] < nfaces THEN 0 - rowsum[ij[1]]
        ELSE IF ij[2] < nfaces THEN 0 - rowsum[ij[2]]
        ELSE SumTo(rowsum, nfaces)]

UpdateMatricesMixedWithGrad_(c) ==
  AcellMixedWithGrad(KfWithGrad([f \in Faces |-> FaceGetCells(f)], c), c)

(***************************************************************************)
(* The state of the operator after Init: no local matrix has been          *)
(* computed; the right-hand side is zero or holds what other terms of the  *)
(* equation have put there.  The configuration, the coefficient and the    *)
(* boundary tables are inputs of the run; boundary conditions are          *)
(* prescribed on boundary faces.                                           *)
(***************************************************************************)
InitOpState ==
  /\ \E cfg \in {<<OPERATOR_UPWIND_NONE, FALSE>>, <<OPERATOR_UPWIND_NONE, TRUE>>,
                 <<OPERATOR_UPWIND_FLUX, FALSE>>, <<OPERATOR_UPWIND_FLUX, TRUE>>,
                 <<OPERATOR_UPWIND_AMANZI_ARTIFICIAL_DIFFUSION, FALSE>>,
                 <<OPERATOR_UPWIND_AMANZI_DIVK, FALSE>>,
                 <<OPERATOR_UPWIND_AMANZI_SECOND_ORDER, FALSE>>} :
       /\ upwind_ = cfg[1]
       /\ scaled_constraint_ = cfg[2]
  /\ k_cell \in (IF upwind_ = OPERATOR_UPWIND_AMANZI_SECOND_ORDER
                 THEN {[c \in Cells |-> c + 1]}
                 ELSE {null, [c \in Cells |-> c + 1]})
  /\ k_face = [f \in Faces |-> 1 + (f % 2)]
  /\ k_twin \in (IF upwind_ \in {OPERATOR_UPWIND_AMANZI_DIVK,
                                 OPERATOR_UPWIND_AMANZI_SECOND_ORDER}
                 THEN {null, [f \in Faces |-> 2 - (f % 2)], k_face} ELSE {null})
  /\ bc_model \in {t \in [Faces -> BCModels] :
                     \A f \in Faces \ BoundaryFaces : t[f] = OPERATOR_BC_NONE}
  /\ \E v \in 1..MaxV :
       /\ bc_value = [f \in Faces |-> v + f]
       /\ bc_mixed = [f \in Faces |-> v + 1]
  /\ matrices = [c \in Cells |-> EmptyMatrix]
  /\ matrices_shadow = [c \in Cells |-> EmptyMatrix]
  /\ \E r \in {0, 1} :
       /\ rhs_face = [f \in Faces |-> r * (f + 1)]
       /\ rhs_cell = [c \in Cells |-> r * (c + 5)]
  /\ n_apply = 0

(***************************************************************************)
(* OperatorDiffusionMFD::UpdateMatrices on the face+cell schema without    *)
(* Newton correction: UpdateMatricesMixed_ for every owned cell.           *)
(***************************************************************************)
UpdateMatrices ==
  /\ matrices' = [c \in Cells |-> IF upwind_ = OPERATOR_UPWIND_AMANZI_SECOND_ORDER
                                   THEN UpdateMatricesMixedWithGrad_(c)
                                   ELSE UpdateMatricesMixed_(c)]
  /\ UNCHANGED <<upwind_, scaled_constraint_, k_cell, k_face, k_twin, bc_model,
                 bc_value, bc_mixed, matrices_shadow, rhs_face, rhs_cell, n_apply>>
  /\ UNCHANGED othersOp

(***************************************************************************)
(* ApplyBCs, face+cell schema.  g is the record of local_op_ and the       *)
(* right-hand side: [matrices, matrices_shadow, rhs_face, rhs_cell].       *)
(***************************************************************************)
\* the mesh of one process: every face is owned, there are no ghost faces
GhostFaces == {}

\* "global_op_->rhs()->PutScalarGhosted(0.)": the ghost entries are set
PutScalarGhosted(rhs, scalar) ==
  [f \in Faces |-> IF f \in GhostFaces THEN scalar ELSE rhs[f]]

\* "global_op_->rhs()->GatherGhostedToMaster("face")": the ghost entries are
\* added to the entries of their owners, which are on other processes
GatherGhostedToMaster(rhs) == rhs

\* a variant of ShadowCopy that keeps the shadow matrix as it was
ShadowCopySkipped(g, c) == g

\* "local_op_->matrices_shadow[c] = Acell"
ShadowCopy(g, c) == [g EXCEPT !.matrices_shadow[c] = g.matrices[c]]

\* the loop "for (int m = 0; m < nfaces; m++)" of Dirichlet face n, from m on
RECURSIVE EliminateFaceRows(_, _, _, _)
EliminateFaceRows(g, c, n, m) ==
  IF m = NumFaces(c) THEN g
  ELSE LET faces == CellGetFaces(c)
           value == bc_value[faces[n]]
       IN EliminateFaceRows(
            [g EXCEPT !.rhs_face[faces[m]] = @ - g.matrices[c][<<m, n>>] * value,
                      !.matrices[c] = [@ EXCEPT ![<<n, m>>] = 0, ![<<m, n>>] = 0]],
            c, n, m + 1)

\* a variant of DirichletRhs that never places the value
DirichletRhsSkipped(primary, old, value) == old

\* "if (primary) rhs_face[0][f] = value"
DirichletRhs(primary, old, value) == IF primary THEN value ELSE old

\* "if (primary) Acell(n,n) = 1.0"
DirichletDiag(primary, old) == IF primary THEN 1 ELSE old

\* the Dirichlet branch for local face n of cell c
DirichletFace(g, c, n, primary) ==
  LET nfaces == NumFaces(c)
      f == CellGetFaces(c)[n]
      value == bc_value[f]
      g1 == EliminateFaceRows(g, c, n, 0)
      g2 == [g1 EXCEPT !.rhs_face[f] = DirichletRhs(primary, @, value),
                       !.matrices[c][<<n, n>>] = DirichletDiag(primary, @)]
  IN [g2 EXCEPT !.rhs_cell[c] = @ - g2.matrices[c][<<nfaces, n>>] * value,
                !.matrices[c] = [@ EXCEPT ![<<nfaces, n>>] = 0, ![<<n, nfaces>>] = 0]]

\* a variant of NeumannRhs that ignores the area of the face
NeumannRhsNoArea(old, value, area) == old - value

\* "rhs_face[0][f] -= value * mesh_->face_area(f)"
NeumannRhs(old, value, area) == old - value * area

\* the Neumann branch
NeumannFace(g, c, n) ==
  LET f == CellGetFaces(c)[n]
  IN [g EXCEPT !.rhs_face[f] = NeumannRhs(@, bc_value[f], FaceArea(f))]

\* the Mixed branch
MixedFace(g, c, n) ==
  LET f == CellGetFaces(c)[n]
      area == FaceArea(f)
  IN [g EXCEPT !.rhs_face[f] = @ - bc_value[f] * area,
               !.matrices[c][<<n, n>>] = @ + bc_mixed[f] * area]

\* the loop "for (int n = 0; n != nfaces; ++n)" of cell c, from n on
RECURSIVE ApplyBCsFaces(_, _, _, _, _)
ApplyBCsFaces(g, c, n, flag, primary) ==
  IF n = NumFaces(c) THEN g
  ELSE LET model == bc_model[CellGetFaces(c)[n]]
       IN IF model = OPERATOR_BC_DIRICHLET
          THEN ApplyBCsFaces(DirichletFace(IF flag THEN ShadowCopy(g, c) ELSE g,
                                           c, n, primary),
                             c, n + 1, FALSE, primary)
          ELSE IF model = OPERATOR_BC_NEUMANN
          THEN ApplyBCsFaces(NeumannFace(g, c, n), c, n + 1, flag, primary)
          ELSE IF model = OPERATOR_BC_MIXED
          THEN ApplyBCsFaces(MixedFace(IF flag THEN ShadowCopy(g, c) ELSE g, c, n),
                             c, n + 1, FALSE, primary)
          ELSE ApplyBCsFaces(g, c, n + 1, flag, primary)

\* the loop "for (int c = 0; c != ncells_owned; ++c)", from c on
RECURSIVE ApplyBCsCells(_, _, _)
ApplyBCsCells(g, c, primary) ==
  IF c = ncells_owned THEN g
  ELSE ApplyBCsCells(ApplyBCsFaces(g, c, 0, TRUE, primary), c + 1, primary)

ApplyBCs(primary) ==
  /\ \A c \in Cells : matrices[c] # EmptyMatrix
  /\ LET g == ApplyBCsCells([matrices |-> matrices,
                             matrices_shadow |-> matrices_shadow,
                             rhs_face |-> PutScalarGhosted(rhs_face, 0),
                             rhs_cell |-> rhs_cell],
                            0, primary)
     IN /\ matrices' = g.matrices
        /\ matrices_shadow' = g.matrices_shadow
        /\ rhs_face' = GatherGhostedToMaster(g.rhs_face)
        /\ rhs_cell' = g.rhs_cell
  /\ n_apply' = n_apply + 1
  /\ UNCHANGED <<upwind_, scaled_constraint_, k_cell, k_face, k_twin, bc_model,
                 bc_value, bc_mixed>>
  /\ UNCHANGED othersOp

(***************************************************************************)
(* OperatorDiffusionMFD::UpdateMatricesTPFA_ on the mesh of two cells.     *)
(* Real numbers are fractions <<numerator, denominator>> in lowest terms   *)
(* with a positive denominator; Inf is the result of 1.0 / 0.0.            *)
(***************************************************************************)
RECURSIVE GCD(_, _)
GCD(a, b) == IF b = 0 THEN a ELSE GCD(b, a % b)

Abs(a) == IF a < 0 THEN 0 - a ELSE a

Frac(n, d) ==
  LET g == GCD(Abs(n), Abs(d))
      sgn == IF d < 0 THEN 0 - 1 ELSE 1
  IN <<(sgn * n) \div g, (sgn * d) \div g>>

Zero == <<0, 1>>
\* the result of 1.0 / 0.0
Inf == <<1, 0>>

\* "1.0 / x"
Reciprocal(x) ==
  IF x[2] = 0 THEN Zero
  ELSE IF x[1] = 0 THEN Inf
  ELSE Frac(x[2], x[1])

\* "x + y"
Plus(x, y) ==
  IF x[2] = 0 \/ y[2] = 0 THEN Inf
  ELSE Frac(x[1] * y[2] + y[1] * x[2], x[2] * y[2])

\* "-x"
Minus(x) == <<0 - x[1], x[2]>>

\* the direction of the normal of face f: faces 0, 2, 3 are crossed in the
\* first direction, face 1 in the second
FaceDirection(f) == IF f = 1 THEN "y" ELSE "x"

\* the tensors that are explored: diagonal, with the components x and y
Tensors == [x : 0..MaxK, y : 0..MaxK]

\* "WhetStone::Tensor Kc(mesh_->space_dimension(), 1); Kc(0,0) = 1.0"
UnitTensor == [x |-> 1, y |-> 1]

\* Kc.isZero()
isZero(Kt) == Kt.x = 0 /\ Kt.y = 0

\* mfd.MassMatrixInverseTPFA(c, Kt, Mff): the diagonal entry of local face
\* n, the half-cell transmissibility of the face: the permeability across
\* the face times the area of the face
MassMatrixInverseTPFA(c, Kt, n) ==
  LET f == CellGetFaces(c)[n]
  IN Frac(Kt[FaceDirection(f)] * FaceArea(f), 1)

\* the loop "for (int n = 0; n < nfaces; n++)" of cell c, from n on
RECURSIVE TransmissibilityFaces(_, _, _, _)
TransmissibilityFaces(T, c, Kt, n) ==
  IF n = NumFaces(c) THEN T
  ELSE TransmissibilityFaces(
         [T EXCEPT ![CellGetFaces(c)[n]] =
                     Plus(@, Reciprocal(MassMatrixInverseTPFA(c, Kt, n)))],
         c, Kt, n + 1)

\* "if (Kc.isZero()) continue"
CellSkipped(Kt) == isZero(Kt)

\* the loop "for (int c = 0; c < ncells_owned; c++)", from c on
RECURSIVE TransmissibilityCells(_, _)
TransmissibilityCells(T, c) ==
  IF c = ncells_owned THEN T
  ELSE LET Kt == IF K_ # null THEN K_[c] ELSE UnitTensor
       IN TransmissibilityCells(
            IF CellSkipped(Kt) THEN T ELSE TransmissibilityFaces(T, c, Kt, 0),
            c + 1)

\* the matrix Aface of face f
FaceMatrix(T, f) ==
  LET ncells == Cardinality(DOMAIN FaceGetCells(f))
      coef == Reciprocal(T[f])
  IN IF T[f] = Zero
     THEN [ij \in (0..(ncells - 1)) \X (0..(ncells - 1)) |-> Zero]
     ELSE IF ncells = 2
     THEN [ij \in (0..1) \X (0..1) |-> IF ij[1] = ij[2] THEN coef ELSE Minus(coef)]
     ELSE [ij \in {<<0, 0>>} |-> coef]

InitTPFAState ==
  /\ K_ \in {null} \cup [Cells -> Tensors]
  /\ Ttmp = [f \in Faces |-> Zero]
  /\ face_matrices = [f \in Faces |-> EmptyMatrix]

UpdateMatricesTPFA_ ==
  /\ LET T == GatherGhostedToMaster(TransmissibilityCells([f \in Faces |-> Zero], 0))
     IN /\ Ttmp' = T
        /\ face_matrices' = [f \in Faces |-> FaceMatrix(T, f)]
  /\ UNCHANGED K_
  /\ UNCHANGED othersTPFA

(***************************************************************************)
(* OperatorDiffusionMFD::CreateMassMatrices_.                              *)
(***************************************************************************)
DIFFUSION_HEXAHEDRA_MONOTONE == "DIFFUSION_HEXAHEDRA_MONOTONE"
DIFFUSION_OPTIMIZED_FOR_MONOTONICITY == "DIFFUSION_OPTIMIZED_FOR_MONOTONICITY"
DIFFUSION_TPFA == "DIFFUSION_TPFA"
DIFFUSION_OPTIMIZED_FOR_SPARSITY == "DIFFUSION_OPTIMIZED_FOR_SPARSITY"
DIFFUSION_SUPPORT_OPERATOR == "DIFFUSION_SUPPORT_OPERATOR"
DIFFUSION_POLYHEDRA_SCALED == "DIFFUSION_POLYHEDRA_SCALED"
MonotoneMethods == {DIFFUSION_HEXAHEDRA_MONOTONE, DIFFUSION_OPTIMIZED_FOR_MONOTONICITY}
SecondaryMethods ==
  {DIFFUSION_OPTIMIZED_FOR_SPARSITY, DIFFUSION_TPFA, DIFFUSION_SUPPORT_OPERATOR,
   DIFFUSION_POLYHEDRA_SCALED}
PrimaryMethods == MonotoneMethods \cup SecondaryMethods

\* the status codes of an elemental matrix: besides success and failure a
\* variant may report a matrix that merely passed
WHETSTONE_ELEMENTAL_MATRIX_OK == "OK"
WHETSTONE_ELEMENTAL_MATRIX_PASSED == "PASSED"
WHETSTONE_ELEMENTAL_MATRIX_FAILED == "FAILED"
MatrixStatuses ==
  {WHETSTONE_ELEMENTAL_MATRIX_OK, WHETSTONE_ELEMENTAL_MATRIX_PASSED,
   WHETSTONE_ELEMENTAL_MATRIX_FAILED}

MassFailure == "OperatorDiffusion: unexpected failure in WhetStone."

\* one call of a variant of the MFD engine, as logged in invoked
Invocation(c, method, ok) == [cell |-> c, method |-> method, ok |-> ok]

(***************************************************************************)
(* The body of the cell loop up to "Wff_cells_[c] = Wff": the variants     *)
(* invoked for cell c and the final status.  res.first and res.second are  *)
(* the statuses the first and the second variant invoked for the cell      *)
(* return.                                                                 *)
(***************************************************************************)
MassMatrixOfCell(c, res) ==
  IF surface_mesh
  THEN [calls |-> <<Invocation(c, "surface", res.first)>>, ok |-> res.first]
  ELSE LET monotone == mfd_primary_ \in MonotoneMethods
           ok1 == IF monotone THEN res.first ELSE WHETSTONE_ELEMENTAL_MATRIX_FAILED
           method == IF monotone THEN mfd_secondary_ ELSE mfd_primary_
           calls1 == IF monotone THEN <<Invocation(c, mfd_primary_, res.first)>> ELSE <<>>
           next == IF monotone THEN res.second ELSE res.first
       IN IF ok1 # WHETSTONE_ELEMENTAL_MATRIX_OK /\ method \in SecondaryMethods
          THEN [calls |-> calls1 \o <<Invocation(c, method, next)>>, ok |-> next]
          ELSE [calls |-> calls1, ok |-> ok1]

\* the loop "for (int c = 0; c < ncells_owned; c++)", from c on
RECURSIVE CreateMassMatricesCells(_, _, _)
CreateMassMatricesCells(st, c, res) ==
  IF c = ncells_owned THEN [st EXCEPT !.result = "done"]
  ELSE LET r == MassMatrixOfCell(c, res[c])
           st1 == [st EXCEPT !.Wff_cells_[c] = r.ok, !.invoked = @ \o r.calls]
       IN IF r.ok = WHETSTONE_ELEMENTAL_MATRIX_FAILED
          THEN [st1 EXCEPT !.result = MassFailure]
          ELSE CreateMassMatricesCells(st1, c + 1, res)

\* the operator after InitDiffusion_, before the mass matrices are created
InitMassState ==
  /\ surface_mesh \in BOOLEAN
  /\ mfd_primary_ \in PrimaryMethods
  /\ mfd_secondary_ \in SecondaryMethods
  /\ Wff_cells_ = [c \in Cells |-> "none"]
  /\ invoked = <<>>
  /\ mass_result = "none"

CreateMassMatrices_ ==
  /\ mass_result = "none"
  /\ \E res \in [Cells -> [first : MatrixStatuses, second : MatrixStatuses]] :
       LET st == CreateMassMatricesCells(
                   [Wff_cells_ |-> [c \in Cells |-> "none"], invoked |-> <<>>,
                    result |-> "none"], 0, res)
       IN /\ Wff_cells_' = st.Wff_cells_
          /\ invoked' = st.invoked
          /\ mass_result' = st.result
  /\ UNCHANGED <<surface_mesh, mfd_primary_, mfd_secondary_>>
  /\ UNCHANGED othersMass

(***************************************************************************)
(* Richards_PK::Richards_PK: the sublists of the parameter list.           *)
(* global_list says which sublists the list handed in has; "Richards       *)
(* Problem" is looked up inside "Flow".                                    *)
(***************************************************************************)
GlobalLists == [Flow : BOOLEAN, RichardsProblem : BOOLEAN, Preconditioners : BOOLEAN,
                Solvers : BOOLEAN]

ConstructorResult(gl) ==
  IF ~gl.Flow
  THEN "Richards PK: input parameter list does not have <Flow> sublist."
  ELSE IF ~gl.RichardsProblem
  THEN "Richards PK: input parameter list does not have <Richards Problem> sublist."
  ELSE IF ~gl.Preconditioners
  THEN "Richards PK: input parameter list does not have <Preconditioners> sublist."
  ELSE IF ~gl.Solvers
  THEN "Richards PK: input parameter list does not have <Solvers> sublist."
  ELSE "constructed"

Richards_PK ==
  /\ pk_result = "none"
  /\ \E gl \in {g \in GlobalLists : g.RichardsProblem => g.Flow} :
       /\ global_list' = gl
       /\ pk_result' = ConstructorResult(gl)
  /\ UNCHANGED <<plist, op_result, local_op_schema_, global_op_schema_>>
  /\ UNCHANGED <<varsPK, varsOp, varsMass, varsAux>>

(***************************************************************************)
(* OperatorDiffusionMFD::InitDiffusion_(plist).                            *)
(***************************************************************************)
PrimaryNames ==
  {"mfd: monotone for hex", "mfd: optimized for monotonicity",
   "mfd: two-point flux approximation", "mfd: optimized for sparsity",
   "mfd: support operator", "mfd: default"}
SecondaryNames ==
  {"mfd: two-point flux approximation", "mfd: optimized for sparsity",
   "mfd: support operator", "mfd: default"}

MethodOfName(name) ==
  CASE name = "mfd: monotone for hex" -> DIFFUSION_HEXAHEDRA_MONOTONE
    [] name = "mfd: optimized for monotonicity" -> DIFFUSION_OPTIMIZED_FOR_MONOTONICITY
    [] name = "mfd: two-point flux approximation" -> DIFFUSION_TPFA
    [] name = "mfd: optimized for sparsity" -> DIFFUSION_OPTIMIZED_FOR_SPARSITY
    [] name = "mfd: support operator" -> DIFFUSION_SUPPORT_OPERATOR
    [] name = "mfd: default" -> DIFFUSION_POLYHEDRA_SCALED

PrimaryUnsupported(name) ==
  "OperatorDiffusion: primary discretization method \"" \o name \o "\" is not supported."
SecondaryUnsupported(name) ==
  "OperatorDiffusion: secondary discretization method \"" \o name \o "\" is not supported."
SchemaUnsupported == "OperatorDiffusion: \"schema\" must be CELL, FACE+CELL, or NODE"

\* the bits of a schema
OPERATOR_SCHEMA_DOFS_FACE == 1
OPERATOR_SCHEMA_DOFS_CELL == 2
OPERATOR_SCHEMA_DOFS_NODE == 4

\* the loop over the names of "schema", from position i on (i counts from 1)
RECURSIVE SchemaDofs(_, _)
SchemaDofs(names, i) ==
  IF i > Len(names) THEN 0
  ELSE (IF names[i] = "cell" THEN OPERATOR_SCHEMA_DOFS_CELL
        ELSE IF names[i] = "node" THEN OPERATOR_SCHEMA_DOFS_NODE
        ELSE IF names[i] = "face" THEN OPERATOR_SCHEMA_DOFS_FACE
        ELSE 0)
       + SchemaDofs(names, i + 1)

\* local_op_schema_ of a sum of bits, or "none" when the sum is rejected
LocalSchema(schema_dofs) ==
  IF schema_dofs = OPERATOR_SCHEMA_DOFS_NODE THEN "BASE_CELL|DOFS_NODE"
  ELSE IF schema_dofs = OPERATOR_SCHEMA_DOFS_FACE + OPERATOR_SCHEMA_DOFS_CELL
  THEN "BASE_CELL|DOFS_FACE|DOFS_CELL"
  ELSE IF schema_dofs = OPERATOR_SCHEMA_DOFS_CELL THEN "BASE_FACE|DOFS_CELL"
  ELSE "none"

UpwindOfName(name) ==
  CASE name = "standard" -> OPERATOR_UPWIND_FLUX
    [] name = "artificial diffusion" -> OPERATOR_UPWIND_AMANZI_ARTIFICIAL_DIFFUSION
    [] name = "divk" -> OPERATOR_UPWIND_AMANZI_DIVK
    [] name = "none" -> OPERATOR_UPWIND_NONE

\* sequences of at most k elements of S
SeqsUpTo(S, k) == UNION {[1..n -> S] : n \in 0..k}

\* the parameter lists that are explored; secondary "" stands for an absent
\* "discretization secondary", "preconditioner schema" is absent
ParameterLists ==
  [primary : PrimaryNames \cup {"mfd: bogus"},
   secondary : SecondaryNames \cup {"", "mfd: bogus"},
   schema : SeqsUpTo({"cell", "face", "node", "bogus"}, MaxSchemaLen),
   upwind : {"none", "standard"},
   scaled : {FALSE}]

InitCfgState ==
  /\ global_list = [Flow |-> FALSE, RichardsProblem |-> FALSE,
                    Preconditioners |-> FALSE, Solvers |-> FALSE]
  /\ pk_result = "none"
  /\ plist = [primary |-> "", secondary |-> "", schema |-> <<>>, upwind |-> "none",
              scaled |-> FALSE]
  /\ op_result = "none"
  /\ local_op_schema_ = "none"
  /\ global_op_schema_ = 0

InitDiffusion_ ==
  /\ op_result = "none"
  /\ \E pl \in ParameterLists :
       LET secondary == IF pl.secondary = "" THEN pl.primary ELSE pl.secondary
           schema_dofs == SchemaDofs(pl.schema, 1)
           okPrimary == pl.primary \in PrimaryNames
           okSecondary == okPrimary /\ secondary \in SecondaryNames
           okSchema == okSecondary /\ LocalSchema(schema_dofs) # "none"
       IN /\ plist' = pl
          /\ mfd_primary_' = IF okPrimary THEN MethodOfName(pl.primary) ELSE mfd_primary_
          /\ mfd_secondary_' = IF okSecondary THEN MethodOfName(secondary)
                               ELSE mfd_secondary_
          /\ local_op_schema_' = IF okSchema THEN LocalSchema(schema_dofs)
                                 ELSE local_op_schema_
          /\ global_op_schema_' = IF okSchema THEN schema_dofs ELSE global_op_schema_
          /\ scaled_constraint_' = IF okSchema THEN pl.scaled ELSE scaled_constraint_
          /\ upwind_' = IF okSchema THEN UpwindOfName(pl.upwind) ELSE upwind_
          /\ op_result' = IF ~okPrimary THEN PrimaryUnsupported(pl.primary)
                          ELSE IF ~okSecondary THEN SecondaryUnsupported(secondary)
                          ELSE IF ~okSchema THEN SchemaUnsupported
                          ELSE "initialized"
  /\ UNCHANGED <<global_list, pk_result>>
  /\ UNCHANGED <<surface_mesh, Wff_cells_, invoked, mass_result>>
  /\ UNCHANGED <<k_cell, k_face, k_twin, bc_model, bc_value, bc_mixed, matrices,
                 matrices_shadow, rhs_face, rhs_cell, n_apply>>
  /\ UNCHANGED <<varsPK, varsAux>>

(***************************************************************************)
(* MeshFactory: the framework preferences, as test_mesh_factory.cc uses    *)
(* them.  A preference is a list of frameworks; the factory keeps the      *)
(* available ones of the list and throws a Message when none is left.      *)
(***************************************************************************)
Simple == "Simple"
MOAB == "MOAB"
STKMESH == "STKMESH"
MSTK == "MSTK"
Frameworks == {Simple, MOAB, STKMESH, MSTK}

\* the preference lists handed to the factory
FrameworkPreferences == UNION {[1..n -> Frameworks] : n \in 0..MaxPref}

framework_available(f) == f \in available

\* a variant of available_preference that keeps every framework of the list
all_preference(pref) == pref

\* the available frameworks of a preference list, in the order of the list
available_preference(pref) == SelectSeq(pref, framework_available)

\* the preference of a newly constructed factory
default_preference == available_preference(<<MSTK, STKMESH, MOAB, Simple>>)

\* MeshFactory::preference(pref), the effect on the factory
SetPreference(pref) ==
  /\ my_preference' = available_preference(pref)
  /\ thrown' = IF available_preference(pref) = <<>> THEN "Message" ELSE "none"
  /\ UNCHANGED available

preference(pref) ==
  /\ SetPreference(pref)
  /\ UNCHANGED check
  /\ UNCHANGED othersFac

\* check_preference(mesh_factory, f) of the test
check_preference(f) ==
  /\ SetPreference(<<f>>)
  /\ check' = IF framework_available(f)
              THEN (IF thrown' = "none" /\ Head(my_preference') = f
                    THEN "passed" ELSE "failed")
              ELSE (IF thrown' = "Message" THEN "passed" ELSE "failed")
  /\ UNCHANGED othersFac

\* the Simple framework is always there
InitFacState ==
  /\ available \in {A \in SUBSET Frameworks : Simple \in A}
  /\ my_preference = default_preference
  /\ thrown = "none"
  /\ check = "none"

(***************************************************************************)
(* Richards_PK::DeriveFaceValuesFromCellValues(ucells, ufaces) on a        *)
(* process mesh of a strip of four cells, owned cells first: owned face 0  *)
(* lies between cells 0 and 1, owned face 1 between cells 2 and 3, ghost   *)
(* face 2 between cells 1 and 2.  Face values are fractions.               *)
(***************************************************************************)
StripCells == 0..3
StripFaces == 0..nfaces_owned

\* the cells of face f, in the order of the mesh
StripFaceCells(f) == IF f = 0 THEN <<0, 1>> ELSE IF f = 1 THEN <<2, 3>> ELSE <<1, 2>>

IsOwnedCell(c) == c < cells_owned

\* mesh_->face_get_cells(f, AmanziMesh::OWNED, &cells)
face_get_cells_OWNED(f) == SelectSeq(StripFaceCells(f), IsOwnedCell)

\* the reference atmospheric pressure
atm_pressure == 7

\* the loop "for (int n = 0; n < ncells; n++) face_value += ucells[cells[n]]"
RECURSIVE FaceValueSum(_, _, _)
FaceValueSum(u, cells, n) ==
  IF n > Len(cells) THEN 0 ELSE u[cells[n]] + FaceValueSum(u, cells, n + 1)

\* a variant of FaceValue that does not divide
FaceValueUndivided(face_value, ncells) == Frac(face_value, 1)

\* "face_value / ncells"
FaceValue(face_value, ncells) == Frac(face_value, ncells)

\* the loop "for (int f = 0; f < nfaces_owned; f++)", from f on
RECURSIVE DeriveFaces(_, _, _)
DeriveFaces(u, uf, f) ==
  IF f = nfaces_owned THEN uf
  ELSE LET cells == face_get_cells_OWNED(f)
           ncells == Len(cells)
       IN DeriveFaces(u,
                      [uf EXCEPT ![f] = IF ncells > 0
                                        THEN FaceValue(FaceValueSum(u, cells, 1), ncells)
                                        ELSE Frac(atm_pressure, 1)],
                      f + 1)

InitDFVState ==
  /\ cells_owned \in 0..Cardinality(StripCells)
  /\ ucells \in [StripCells -> 0..MaxU]
  /\ ufaces \in {[f \in StripFaces |-> Frac(v, 1)] : v \in {0, 9}}

IdleDFV ==
  /\ cells_owned = 0
  /\ ucells = [c \in StripCells |-> 0]
  /\ ufaces = [f \in StripFaces |-> Zero]

DeriveFaceValuesFromCellValues ==
  /\ ufaces' = DeriveFaces(ucells, ufaces, 0)
  /\ UNCHANGED <<cells_owned, ucells>>
  /\ UNCHANGED othersDFV

(***************************************************************************)
(* NonlinearProblem of operator_mini1D_nonlinear.cc on a mesh of cells     *)
(* 0..MaxCell1D.  The operator Mini_Diffusion1D is tridiagonal: up[i] is   *)
(* the entry (i, i+1), down[i] the entry (i, i-1).                         *)
(***************************************************************************)
\* the last cell of the mesh, "ncells" - 1
MaxCell1D == 1
Cells1D == 0..MaxCell1D
Vectors1D == [Cells1D -> 0..MaxSol]

\* the coefficient of the face between the cells i and i + 1
FaceCoef(k, i) == k[i] * k[i + 1]

\* Mini_Diffusion1D::UpdateMatrices: every entry is computed from k
MiniUpdateMatrices(op) ==
  [op EXCEPT
     !.diag = [i \in Cells1D |-> (IF i > 0 THEN FaceCoef(op.k, i - 1) ELSE 0)
                                 + (IF i < MaxCell1D THEN FaceCoef(op.k, i) ELSE 0)],
     !.up = [i \in Cells1D |-> IF i < MaxCell1D THEN 0 - FaceCoef(op.k, i) ELSE 0],
     !.down = [i \in Cells1D |-> IF i > 0 THEN 0 - FaceCoef(op.k, i - 1) ELSE 0]]

\* the condition of one end of the mesh, applied to cell i
MiniApplyBC(op, i, value, type) ==
  IF type = OPERATOR_BC_DIRICHLET
  THEN [op EXCEPT !.diag[i] = @ + 2 * op.k[i], !.rhs[i] = @ + 2 * op.k[i] * value]
  ELSE IF type = OPERATOR_BC_NEUMANN
  THEN [op EXCEPT !.rhs[i] = @ - value]
  ELSE op

\* Mini_Diffusion1D::ApplyBCs(bcl, type_l, bcr, type_r): adds to the diagonal
\* and to the right-hand side
MiniApplyBCs(op, bc) ==
  MiniApplyBC(MiniApplyBC(op, 0, bc.bcl, bc.type_l), MaxCell1D, bc.bcr, bc.type_r)

\* Mini_Diffusion1D::Apply(v, av)
MiniApply(op, v) ==
  [i \in Cells1D |-> op.diag[i] * v[i]
                     + (IF i < MaxCell1D THEN op.up[i] * v[i + 1] ELSE 0)
                     + (IF i > 0 THEN op.down[i] * v[i - 1] ELSE 0)]

\* Mini_Diffusion1D::UpdateJacobian(u, bcl, type_l, bcr, type_r): the
\* matrices with the boundary conditions, plus the terms of dkdp
MiniUpdateJacobian(op, u, bc) ==
  LET op1 == MiniApplyBCs(MiniUpdateMatrices(op), bc)
  IN [op1 EXCEPT !.diag = [i \in Cells1D |-> op1.diag[i] + op1.dkdp[i] * u[i]]]

\* a variant of RestoreRhs that leaves the right-hand side as it is
RestoreRhsSkipped(op, rhs0) == op

\* "op_->rhs() = rhs0_"
RestoreRhs(op, rhs0) == [op EXCEPT !.rhs = rhs0]

\* "op_->k()(i) = 1.0 + (*u)(i) * (*u)(i)"
Coefficient(op, u) == [op EXCEPT !.k = [i \in Cells1D |-> 1 + u[i] * u[i]]]

\* "op_->dkdp()(i) = 2.0 * (*u)(i)"
Derivative(op, u) == [op EXCEPT !.dkdp = [i \in Cells1D |-> 2 * u[i]]]

\* the operator when Residual reaches "op_->Apply(*u, *f)"
ResidualOperator(op, u, rhs0, bc) ==
  MiniApplyBCs(MiniUpdateMatrices(Coefficient(RestoreRhs(op, rhs0), u)), bc)

\* "op_->Apply(*u, *f); f->Update(-1.0, op_->rhs(), 1.0)"
ResidualValue(op, u) == [i \in Cells1D |-> MiniApply(op, u)[i] - op.rhs[i]]

\* the conditions of TEST(OPERATOR_MINI_DIFFUSION_NONLINEAR)
TestBCs ==
  {[bcl |-> 0, type_l |-> OPERATOR_BC_DIRICHLET, bcr |-> 1, type_r |-> OPERATOR_BC_DIRICHLET],
   [bcl |-> 0, type_l |-> OPERATOR_BC_DIRICHLET, bcr |-> 0 - 4, type_r |-> OPERATOR_BC_NEUMANN]}

\* after op->Setup(Ka, kr, dkdu) and the constructor of NonlinearProblem
InitNLState ==
  /\ rhs0_ = [i \in Cells1D |-> 0 - (i + 2)]
  /\ op_ = [k |-> [i \in Cells1D |-> 2], dkdp |-> [i \in Cells1D |-> 2],
            diag |-> [i \in Cells1D |-> 0], up |-> [i \in Cells1D |-> 0],
            down |-> [i \in Cells1D |-> 0], rhs |-> rhs0_]
  /\ bcs_ \in TestBCs
  /\ residual = <<>>
  /\ remembered = <<>>
  /\ n_jac = 0

IdleNL ==
  /\ rhs0_ = [i \in Cells1D |-> 0]
  /\ op_ = [k |-> [i \in Cells1D |-> 0], dkdp |-> [i \in Cells1D |-> 0],
            diag |-> [i \in Cells1D |-> 0], up |-> [i \in Cells1D |-> 0],
            down |-> [i \in Cells1D |-> 0], rhs |-> rhs0_]
  /\ bcs_ = [bcl |-> 0, type_l |-> OPERATOR_BC_NONE, bcr |-> 0, type_r |-> OPERATOR_BC_NONE]
  /\ residual = <<>>
  /\ remembered = <<>>
  /\ n_jac = 0

\* NonlinearProblem::Residual(u, f); the solver may keep the result
Residual(u) ==
  /\ op_' = ResidualOperator(op_, u, rhs0_, bcs_)
  /\ residual' = <<u, ResidualValue(op_', u)>>
  /\ remembered' \in {remembered, residual}
  /\ n_jac' = 0
  /\ UNCHANGED <<rhs0_, bcs_>>
  /\ UNCHANGED othersNL

\* NonlinearProblem::UpdatePreconditioner(u)
UpdatePreconditioner(u) ==
  /\ n_jac < MaxJac
  /\ op_' = MiniUpdateJacobian(Derivative(Coefficient(op_, u), u), u, bcs_)
  /\ n_jac' = n_jac + 1
  /\ UNCHANGED <<rhs0_, bcs_, residual, remembered>>
  /\ UNCHANGED othersNL

\* NonlinearProblem::ApplyPreconditioner(u, hu): ApplyInverse reads the
\* operator and writes hu, a vector of the solver
ApplyPreconditioner(u) ==
  /\ n_jac > 0
  /\ UNCHANGED <<op_, rhs0_, bcs_, residual, remembered, n_jac>>
  /\ UNCHANGED othersNL

(***************************************************************************)
(* OperatorDiffusionMFD::UpdateFlux on the mesh of two cells.              *)
(***************************************************************************)
\* the skews of Wff: zero for a symmetric matrix
Skews == {0, 2}

\* the directions of mesh_->cell_get_faces_and_dirs(c, &faces, &dirs),
\* indexed from 0: the shared face 2 points out of cell 0 and into cell 1
CellGetDirs(c) ==
  IF c = 0 THEN [n \in 0..2 |-> IF n = 0 THEN 0 - 1 ELSE 1]
  ELSE [n \in 0..1 |-> IF n = 0 THEN 0 - 1 ELSE 1]

\* the solutions given to UpdateFlux: a constant field and one that grows
\* with the number of the face and of the cell
FluxSolutions ==
  {[cell |-> [c \in Cells |-> 3], face |-> [f \in Faces |-> 3]],
   [cell |-> [c \in Cells |-> 5 + c], face |-> [f \in Faces |-> f + 1]]}

\* the vector v of cell c: the face values, then the cell value
LocalVector(u, c) ==
  [n \in 0..NumFaces(c) |->
     IF n < NumFaces(c) THEN u.face[CellGetFaces(c)[n]] ELSE u.cell[c]]

\* DenseMatrix::Multiply(v, av, false): av = A * v
Multiply(A, v, c) ==
  [n \in 0..NumFaces(c) |->
     SumTo([m \in 0..NumFaces(c) |-> A[<<n, m>>] * v[m]], NumFaces(c) + 1)]

\* "if (local_op_->matrices_shadow[c].NumRows() == 0)": the matrix that
\* UpdateFlux multiplies with
FluxMatrix(mats, shadow, c) ==
  IF shadow[c] = EmptyMatrix THEN mats[c] ELSE shadow[c]

\* the loop "for (int n = 0; n < nfaces; n++)" of cell c, from n on; s is
\* the record [flux_data, flag]
RECURSIVE UpdateFluxFaces(_, _, _, _)
UpdateFluxFaces(s, av, c, n) ==
  IF n = NumFaces(c) THEN s
  ELSE LET f == CellGetFaces(c)[n]
       IN IF f \notin GhostFaces /\ ~s.flag[f]
          THEN UpdateFluxFaces(
                 [s EXCEPT !.flux_data[f] = @ - av[n] * CellGetDirs(c)[n],
                           !.flag[f] = TRUE],
                 av, c, n + 1)
          ELSE UpdateFluxFaces(s, av, c, n + 1)

\* the loop "for (int c = 0; c < ncells_owned; c++)", from c on
RECURSIVE UpdateFluxCells(_, _, _, _, _)
UpdateFluxCells(s, mats, shadow, u, c) ==
  IF c = ncells_owned THEN s
  ELSE UpdateFluxCells(
         UpdateFluxFaces(s, Multiply(FluxMatrix(mats, shadow, c), LocalVector(u, c), c),
                         c, 0),
         mats, shadow, u, c + 1)

\* the face fluxes that UpdateFlux computes from the local matrices mats
\* and their shadows: "flux.PutScalar(0.0)", then the loop over the cells
FluxData(mats, shadow, u) ==
  UpdateFluxCells([flux_data |-> [f \in Faces |-> 0], flag |-> [f \in Faces |-> FALSE]],
                  mats, shadow, u, 0).flux_data

InitFluxState ==
  /\ Wff_skew = 0
  /\ flux_data = [f \in Faces |-> 0]

IdleFlux == InitFluxState

UpdateFlux(u) ==
  /\ \A c \in Cells : matrices[c] # EmptyMatrix
  /\ flux_data' = FluxData(matrices, matrices_shadow, u)
  /\ UNCHANGED <<Wff_skew, varsOp>>
  /\ UNCHANGED <<varsPK, varsMass, varsCfg, varsLED, varsTPFA, varsFac, varsPrec,
                 varsDFV, varsNL>>

(***************************************************************************)
(* The specifications.  Each one runs one component and holds the          *)
(* variables of the other components at a fixed value.                     *)
(***************************************************************************)
IdlePK ==
  /\ initialized = FALSE
  /\ crashed = FALSE
  /\ flow_status_ = "UNDEFINED"
  /\ ti_method = "OTHER"
  /\ ti_method_sss = FLOW_TIME_INTEGRATION_BDF1
  /\ ti_method_trs = FLOW_TIME_INTEGRATION_BDF2
  /\ ti_method_igs = FLOW_TIME_INTEGRATION_PICARD
  /\ num_itrs = 0
  /\ block_picard = 1
  /\ dT = 1
  /\ dTnext = 1
  /\ solution = [cells |-> 0, faces |-> 0]
  /\ FS = [pressure |-> 0, lambda |-> 0]
  /\ mass_bc = 0
  /\ bdf1_dae = NULL
  /\ bdf2_dae = NULL
  /\ matrix_ = "empty"
  /\ Krel_method = FLOW_RELATIVE_PERM_UPWIND_GRAVITY
  /\ is_matrix_symmetric = FALSE
  /\ solver = NULL
  /\ water_saturation = 0
  /\ prev_water_saturation = 0
  /\ darcy_flux = [f \in OwnedFaces |-> 0]
  /\ assembly = NewOperators
  /\ calls = <<>>
  /\ ierr = <<>>

IdleLED ==
  /\ ws = [c \in RingCells |-> 0]
  /\ ws_prev = [c \in RingCells |-> 0]
  /\ flux = [f \in RingFaces |-> 0]

IdleTPFA ==
  /\ K_ = null
  /\ Ttmp = [f \in Faces |-> Zero]
  /\ face_matrices = [f \in Faces |-> EmptyMatrix]

IdleFac ==
  /\ available = {Simple}
  /\ my_preference = <<Simple>>
  /\ thrown = "none"
  /\ check = "none"

IdlePrec == InitPrecState

IdleAux == IdleLED /\ IdleTPFA /\ IdleFac /\ IdlePrec /\ IdleDFV /\ IdleNL /\ IdleFlux

IdleOp ==
  /\ upwind_ = OPERATOR_UPWIND_NONE
  /\ scaled_constraint_ = FALSE
  /\ k_cell = null
  /\ k_face = null
  /\ k_twin = null
  /\ bc_model = [f \in Faces |-> OPERATOR_BC_NONE]
  /\ bc_value = [f \in Faces |-> 0]
  /\ bc_mixed = [f \in Faces |-> 0]
  /\ matrices = [c \in Cells |-> EmptyMatrix]
  /\ matrices_shadow = [c \in Cells |-> EmptyMatrix]
  /\ rhs_face = [f \in Faces |-> 0]
  /\ rhs_cell = [c \in Cells |-> 0]
  /\ n_apply = 0

IdleMass ==
  /\ surface_mesh = FALSE
  /\ mfd_primary_ = "unset"
  /\ mfd_secondary_ = "unset"
  /\ Wff_cells_ = [c \in Cells |-> "none"]
  /\ invoked = <<>>
  /\ mass_result = "none"

IdleCfg == InitCfgState

Next ==
  \/ InitPK
  \/ InitPicard
  \/ InitSteadyState
  \/ InitTransient
  \/ CalculateFlowDt
  \/ \E dT_MPC \in DTs : Advance(dT_MPC)
  \/ CommitState

Init == InitPKState /\ IdleOp /\ IdleMass /\ IdleCfg /\ IdleAux

Spec == Init /\ [][Next]_vars

NextOp ==
  \/ UpdateMatrices
  \/ \E primary \in BOOLEAN : n_apply < MaxApply /\ ApplyBCs(primary)

InitOp == IdlePK /\ InitOpState /\ IdleMass /\ IdleCfg /\ IdleAux

SpecOp == InitOp /\ [][NextOp]_vars

NextMass == CreateMassMatrices_

InitMass == IdlePK /\ IdleOp /\ InitMassState /\ IdleCfg /\ IdleAux

SpecMass == InitMass /\ [][NextMass]_vars

NextCfg ==
  \/ Richards_PK
  \/ InitDiffusion_

InitCfg == IdlePK /\ IdleOp /\ IdleMass /\ InitCfgState /\ IdleAux

SpecCfg == InitCfg /\ [][NextCfg]_vars

NextLED == ImproveAlgebraicConsistency

InitLED ==
  /\ IdlePK /\ IdleOp /\ IdleMass /\ IdleCfg
  /\ InitLEDState /\ IdleTPFA /\ IdleFac /\ IdlePrec /\ IdleDFV /\ IdleNL /\ IdleFlux

SpecLED == InitLED /\ [][NextLED]_vars

NextTPFA == UpdateMatricesTPFA_

InitTPFA ==
  /\ IdlePK /\ IdleOp /\ IdleMass /\ IdleCfg
  /\ IdleLED /\ InitTPFAState /\ IdleFac /\ IdlePrec /\ IdleDFV /\ IdleNL /\ IdleFlux

SpecTPFA == InitTPFA /\ [][NextTPFA]_vars

NextFac ==
  \/ \E pref \in FrameworkPreferences : preference(pref)
  \/ \E f \in Frameworks : check_preference(f)

InitFac ==
  /\ IdlePK /\ IdleOp /\ IdleMass /\ IdleCfg
  /\ IdleLED /\ IdleTPFA /\ InitFacState /\ IdlePrec /\ IdleDFV /\ IdleNL /\ IdleFlux

SpecFac == InitFac /\ [][NextFac]_vars

NextPrec ==
  \/ \E op \in Operators, flag \in BOOLEAN : EnterComputePreconditionerMFD(op, flag)
  \/ StepComputePreconditionerMFD

InitPrec ==
  /\ IdlePK /\ IdleOp /\ IdleMass /\ IdleCfg
  /\ IdleLED /\ IdleTPFA /\ IdleFac /\ InitPrecState /\ IdleDFV /\ IdleNL /\ IdleFlux

SpecPrec == InitPrec /\ [][NextPrec]_vars

NextDFV ==
  DeriveFaceValuesFromCellValues

InitDFV ==
  /\ IdlePK /\ IdleOp /\ IdleMass /\ IdleCfg
  /\ IdleLED /\ IdleTPFA /\ IdleFac /\ IdlePrec /\ InitDFVState /\ IdleNL /\ IdleFlux

SpecDFV == InitDFV /\ [][NextDFV]_vars

NextNL ==
  \E u \in Vectors1D :
    \/ Residual(u)
    \/ UpdatePreconditioner(u)
    \/ ApplyPreconditioner(u)

InitNL ==
  /\ IdlePK /\ IdleOp /\ IdleMass /\ IdleCfg
  /\ IdleLED /\ IdleTPFA /\ IdleFac /\ IdlePrec /\ IdleDFV /\ InitNLState /\ IdleFlux

SpecNL == InitNL /\ [][NextNL]_vars

NextFlux ==
  \/ UpdateMatrices
  \/ \E primary \in BOOLEAN : n_apply < MaxApply + 1 /\ ApplyBCs(primary)
  \/ \E u \in FluxSolutions : UpdateFlux(u)

\* UpdateFlux after UpdateMatrices and ApplyBCs; ApplyBCs may be called
\* once more than in SpecOp, so that it is called twice without an
\* UpdateMatrices in between
InitFlux ==
  /\ IdlePK /\ InitOpState /\ IdleMass /\ IdleCfg
  /\ IdleLED /\ IdleTPFA /\ IdleFac /\ IdlePrec /\ IdleDFV /\ IdleNL /\ InitFluxState

SpecFlux == InitFlux /\ [][NextFlux]_vars

\* UpdateMatrices with an inverse mass matrix that may be asymmetric
NextAcell == UpdateMatrices

InitAcell ==
  /\ IdlePK /\ InitOpState /\ IdleMass /\ IdleCfg
  /\ IdleLED /\ IdleTPFA /\ IdleFac /\ IdlePrec /\ IdleDFV /\ IdleNL
  /\ Wff_skew \in Skews
  /\ flux_data = [f \in Faces |-> 0]

SpecAcell == InitAcell /\ [][NextAcell]_vars

(***************************************************************************)
(* Properties of the life cycle of Richards_PK (specification Spec).       *)
(***************************************************************************)
AdvanceStep == \E dT_MPC \in DTs : Advance(dT_MPC)

\* C1: an Advance on a kernel whose flow status is still INIT is rejected:
\* it performs no time step, does not increment num_itrs and does not move
\* the flow status.
C1_AdvanceAtInitRejected ==
  [][(flow_status_ = FLOW_STATUS_INIT /\ AdvanceStep)
       => /\ num_itrs' = num_itrs
          /\ flow_status_' = flow_status_
          /\ solution' = solution
          /\ bdf1_dae' = bdf1_dae /\ bdf2_dae' = bdf2_dae]_vars

\* C2: flow_status_ is the value designated by the last status-setting
\* operation: InitPK sets INIT, InitSteadyState sets STEADY_STATE_INIT,
\* InitTransient sets TRANSIENT_STATE_INIT, every Advance that returns sets
\* TRANSIENT_STATE_COMPLETE on each of its paths; InitPicard,
\* CalculateFlowDt and CommitState leave it alone, so that
\* TRANSIENT_STATE_COMPLETE is entered through Advance only.
C2_StatusFollowsOperations ==
  [][/\ InitPK => flow_status_' = FLOW_STATUS_INIT
     /\ InitSteadyState => flow_status_' = FLOW_STATUS_STEADY_STATE_INIT
     /\ InitTransient => flow_status_' = FLOW_STATUS_TRANSIENT_STATE_INIT
     /\ (AdvanceStep /\ ~crashed')
          => flow_status_' = FLOW_STATUS_TRANSIENT_STATE_COMPLETE
     /\ (InitPicard \/ CalculateFlowDt \/ CommitState)
          => flow_status_' = flow_status_
     /\ (flow_status_' = FLOW_STATUS_TRANSIENT_STATE_COMPLETE
         /\ flow_status_ # FLOW_STATUS_TRANSIENT_STATE_COMPLETE)
          => AdvanceStep]_vars

\* the first BDF2 Advance of the transient phase has just returned
C2_Witness ==
  /\ ~crashed
  /\ flow_status_ = FLOW_STATUS_TRANSIENT_STATE_COMPLETE
  /\ ti_method = FLOW_TIME_INTEGRATION_BDF2 /\ bdf2_dae = "stepped"
  /\ num_itrs = 1 /\ mass_bc > 0
  /\ calls # <<>> /\ calls[Len(calls)] = "bdf2_dae.commit_solution"

\* C3 (as claimed): CommitState after a completed Advance leaves the flow
\* status, num_itrs and the solution unchanged and writes nothing but the
\* flow state and dT, which becomes dTnext.
C3_CommitWritesOnlyFlowState ==
  [][(CommitState /\ flow_status_ = FLOW_STATUS_TRANSIENT_STATE_COMPLETE)
       => /\ dT' = dTnext
          /\ UNCHANGED <<initialized, crashed, flow_status_, ti_method,
                         ti_method_sss, ti_method_trs, ti_method_igs, num_itrs,
                         block_picard, dTnext, solution, mass_bc, bdf1_dae,
                         bdf2_dae, matrix_>>]_vars

\* C3 (amended): CommitState after a completed Advance leaves the flow
\* status, num_itrs, the solution, the schemes and the integrators
\* unchanged; it copies the solution into the flow state, replaces dT by
\* dTnext, rebuilds the stiffness matrices of matrix_ and may add a
\* multiple of rho*dT to the mass balance mass_bc.
C3_CommitFrame ==
  [][(CommitState /\ flow_status_ = FLOW_STATUS_TRANSIENT_STATE_COMPLETE)
       => /\ dT' = dTnext
          /\ FS' = [pressure |-> solution.cells, lambda |-> solution.faces]
          /\ matrix_' = "stiffness"
          /\ \E k \in 0..MaxMass : mass_bc' = mass_bc + k * Rho * dT
          /\ UNCHANGED <<initialized, crashed, flow_status_, ti_method,
                         ti_method_sss, ti_method_trs, ti_method_igs, num_itrs,
                         block_picard, dTnext, solution, bdf1_dae,
                         bdf2_dae>>]_vars

\* CommitState has run after a steady-state Advance and has added to mass_bc
C3_Witness ==
  /\ ~crashed
  /\ flow_status_ = FLOW_STATUS_TRANSIENT_STATE_COMPLETE
  /\ matrix_ = "stiffness" /\ calls = <<>>
  /\ FS = [pressure |-> solution.cells, lambda |-> solution.faces]
  /\ ti_method = ti_method_sss /\ bdf1_dae = "stepped" /\ bdf2_dae = NULL
  /\ mass_bc > 0

\* C4: every InitSteadyState or InitTransient that selects BDF1 or BDF2
\* leaves the kernel with a newly constructed integrator of that scheme,
\* which holds no history.
C4_FreshIntegrator ==
  [][/\ (InitSteadyState /\ ti_method_sss = FLOW_TIME_INTEGRATION_BDF1)
          => bdf1_dae' = NewDae
     /\ (InitSteadyState /\ ti_method_sss = FLOW_TIME_INTEGRATION_BDF2)
          => bdf2_dae' = NewDae
     /\ (InitTransient /\ ti_method_trs = FLOW_TIME_INTEGRATION_BDF1)
          => bdf1_dae' = NewDae
     /\ (InitTransient /\ ti_method_trs = FLOW_TIME_INTEGRATION_BDF2)
          => bdf2_dae' = NewDae]_vars

\* C5: with the Picard scheme, the first Advance after InitSteadyState calls
\* AdvanceToSteadyState exactly once, performs no Picard time step and sets
\* block_picard; every later Advance while blocked leaves the solution
\* alone and returns dTnext = dT; CalculateFlowDt of a blocked Picard
\* kernel reports dT times 1e+4.
C5_PicardPassThrough ==
  [][/\ (AdvanceStep /\ ~crashed' /\ num_itrs = 0
         /\ ti_method = FLOW_TIME_INTEGRATION_PICARD
         /\ flow_status_ = FLOW_STATUS_STEADY_STATE_INIT)
          => /\ Cardinality({i \in DOMAIN calls' :
                               calls'[i] = "AdvanceToSteadyState"}) = 1
             /\ \A i \in DOMAIN calls' : calls'[i] # "PicardTimeStep"
             /\ block_picard' = 1
             /\ dTnext' = dT'
     /\ (AdvanceStep /\ ~crashed' /\ num_itrs > 0
         /\ ti_method = FLOW_TIME_INTEGRATION_PICARD /\ block_picard = 1)
          => /\ solution' = solution
             /\ calls' = <<"Advance">>
             /\ block_picard' = 1
             /\ dTnext' = dT'
     /\ (CalculateFlowDt /\ ti_method = FLOW_TIME_INTEGRATION_PICARD
         /\ block_picard = 1)
          => dT' = dT * PicardFactor]_vars

\* after the steady-state Picard solve and a pass-through Advance the step
\* size reported by CalculateFlowDt is inflated
C5_Witness ==
  /\ ~crashed
  /\ ti_method_sss = FLOW_TIME_INTEGRATION_PICARD
  /\ ti_method = FLOW_TIME_INTEGRATION_PICARD
  /\ block_picard = 1 /\ num_itrs = MaxItrs
  /\ matrix_ = "system"
  /\ dT >= PicardFactor /\ dTnext <= MaxDT

(***************************************************************************)
(* Properties of ApplyBCs (specification SpecOp).                          *)
(***************************************************************************)
\* the local indices of the Dirichlet faces of cell c
DirichletLocal(c) ==
  {n \in DOMAIN CellGetFaces(c) : bc_model[CellGetFaces(c)[n]] = OPERATOR_BC_DIRICHLET}

\* the cells of face f and the local index of f in cell c
CellsOf(f) == {c \in Cells : \E n \in DOMAIN CellGetFaces(c) : CellGetFaces(c)[n] = f}
LocalIndex(c, f) == CHOOSE n \in DOMAIN CellGetFaces(c) : CellGetFaces(c)[n] = f

RECURSIVE SumSet(_, _)
SumSet(F, S) ==
  IF S = {} THEN 0
  ELSE LET x == CHOOSE y \in S : TRUE IN F[x] + SumSet(F, S \ {x})

\* what the Dirichlet faces of cell c take from the right-hand side of local
\* row i: the sum of Acell(i, n) * value over the Dirichlet faces n of c
Eliminated(c, i) ==
  SumSet([n \in DirichletLocal(c) |->
            matrices[c][<<i, n>>] * bc_value[CellGetFaces(c)[n]]],
         DirichletLocal(c))

\* what the Dirichlet faces of all cells of face f take from rhs_face[f]
EliminatedFace(f) ==
  SumSet([c \in CellsOf(f) |-> Eliminated(c, LocalIndex(c, f))], CellsOf(f))

Symmetric(A, k) == \A i, j \in 0..k : A[<<i, j>>] = A[<<j, i>>]

\* C6: after ApplyBCs(primary = true), for every Dirichlet face f of a cell
\* the local row and column of f are zero, the cell couplings included,
\* apart from the diagonal, which is 1; the right-hand side of f is the
\* prescribed value; the right-hand side of every other row (faces and cell
\* unknown) has lost exactly Acell_before(m, f) * value for each Dirichlet
\* face f of the cell, whatever their number and order.
C6_DirichletElimination ==
  [][ApplyBCs(TRUE)
       => /\ \A c \in Cells : \A n \in DirichletLocal(c) :
               /\ \A i \in 0..NumFaces(c) :
                    i # n => /\ matrices'[c][<<n, i>>] = 0
                             /\ matrices'[c][<<i, n>>] = 0
               /\ matrices'[c][<<n, n>>] = 1
               /\ rhs_face'[CellGetFaces(c)[n]] = bc_value[CellGetFaces(c)[n]]
          /\ \A f \in Faces :
               bc_model[f] # OPERATOR_BC_DIRICHLET
                 => rhs_face'[f] = rhs_face[f] - EliminatedFace(f)
                                   - (IF bc_model[f] = OPERATOR_BC_NONE THEN 0
                                      ELSE bc_value[f] * FaceArea(f))
          /\ \A c \in Cells :
               rhs_cell'[c] = rhs_cell[c] - Eliminated(c, NumFaces(c))]_vars

\* both boundary faces of cell 0 are Dirichlet faces and have been eliminated
C6_Witness ==
  /\ n_apply = 1
  /\ bc_model[0] = OPERATOR_BC_DIRICHLET /\ bc_model[1] = OPERATOR_BC_DIRICHLET
  /\ bc_model[3] = OPERATOR_BC_NEUMANN
  /\ rhs_face[0] = bc_value[0] /\ rhs_face[1] = bc_value[1]
  /\ matrices[0][<<0, 0>>] = 1 /\ matrices[0][<<1, 1>>] = 1
  /\ matrices[0][<<0, 1>>] = 0 /\ matrices[0][<<3, 0>>] = 0
  /\ matrices_shadow[0] = UpdateMatricesMixed_(0)
  /\ rhs_face[2] # 0 /\ rhs_cell[0] # 0

\* C7: after ApplyBCs(primary = false), for every Dirichlet face f the local
\* row and column of f are zero, the diagonal is not set to 1, the
\* right-hand side of f is neither overwritten nor otherwise modified, and
\* a symmetric local matrix stays symmetric.
C7_NonPrimaryLeavesRhs ==
  [][ApplyBCs(FALSE)
       => \A c \in Cells :
            /\ \A n \in DirichletLocal(c) :
                 /\ \A i \in 0..NumFaces(c) :
                      /\ matrices'[c][<<n, i>>] = 0
                      /\ matrices'[c][<<i, n>>] = 0
                 /\ rhs_face'[CellGetFaces(c)[n]] = rhs_face[CellGetFaces(c)[n]]
            /\ Symmetric(matrices[c], NumFaces(c))
                 => Symmetric(matrices'[c], NumFaces(c))]_vars

\* C8: ApplyBCs eliminates nothing for faces that are not Dirichlet faces: a
\* Neumann face f only takes value * area from rhs_face[f]; a Mixed face f
\* takes value * area from rhs_face[f] and adds coefficient * area to
\* Acell(f, f) only; a face without condition changes nothing.  All other
\* changes are those of the Dirichlet faces.
C8_NeumannMixedFrame ==
  [][(\E primary \in BOOLEAN : ApplyBCs(primary))
       => /\ \A c \in Cells : \A i, j \in (0..NumFaces(c)) \ DirichletLocal(c) :
               matrices'[c][<<i, j>>] =
                 matrices[c][<<i, j>>]
                 + (IF i = j /\ i < NumFaces(c)
                       /\ bc_model[CellGetFaces(c)[i]] = OPERATOR_BC_MIXED
                    THEN bc_mixed[CellGetFaces(c)[i]] * FaceArea(CellGetFaces(c)[i])
                    ELSE 0)
          /\ \A f \in Faces :
               /\ bc_model[f] \in {OPERATOR_BC_NEUMANN, OPERATOR_BC_MIXED}
                    => rhs_face'[f] - (rhs_face[f] - EliminatedFace(f))
                         = 0 - bc_value[f] * FaceArea(f)
               /\ bc_model[f] = OPERATOR_BC_NONE
                    => rhs_face'[f] = rhs_face[f] - EliminatedFace(f)
          /\ (\A f \in Faces : bc_model[f] \in {OPERATOR_BC_NONE, OPERATOR_BC_NEUMANN})
               => /\ matrices' = matrices
                  /\ matrices_shadow' = matrices_shadow
                  /\ rhs_cell' = rhs_cell
                  /\ \A f \in Faces :
                       bc_model[f] = OPERATOR_BC_NONE => rhs_face'[f] = rhs_face[f]]_vars

\* a Neumann face and a Mixed face of cell 0 have been processed
C8_Witness ==
  /\ n_apply = 1
  /\ bc_model[0] = OPERATOR_BC_NEUMANN /\ bc_model[1] = OPERATOR_BC_MIXED
  /\ bc_model[3] = OPERATOR_BC_NONE
  /\ rhs_face[0] = 0 - bc_value[0] * FaceArea(0)
  /\ rhs_face[1] = 0 - bc_value[1] * FaceArea(1)
  /\ rhs_face[2] = 0 /\ rhs_face[3] = 0
  /\ matrices_shadow[0] = UpdateMatricesMixed_(0)
  /\ matrices[0][<<1, 1>>] = matrices_shadow[0][<<1, 1>>] + bc_mixed[1] * FaceArea(1)
  /\ matrices[0][<<0, 0>>] = matrices_shadow[0][<<0, 0>>]
  /\ matrices[1] = UpdateMatricesMixed_(1)

(***************************************************************************)
(* Properties of CreateMassMatrices_ (specification SpecMass).             *)
(***************************************************************************)
\* the variants invoked for cell c, in order
InvokedFor(log, c) ==
  LET Mine(e) == e.cell = c IN SelectSeq(log, Mine)

\* C9: on a non-surface mesh, for each cell: a monotone primary variant
\* that reports success is the only variant invoked; when it does not
\* report success the secondary variant is invoked; the fatal error is
\* raised only when every variant invoked for the cell failed to report
\* success; and a cell whose last invoked variant did not report success is
\* never accepted silently: the fatal error is raised for it.
C9_FallbackChain ==
  [][(CreateMassMatrices_ /\ ~surface_mesh)
       => \A c \in Cells :
            LET mine == InvokedFor(invoked', c)
                thrownHere == /\ mass_result' = MassFailure
                              /\ invoked'[Len(invoked')].cell = c
            IN mine # <<>>
                 => /\ (mfd_primary_ \in MonotoneMethods
                        /\ mine[1].ok = WHETSTONE_ELEMENTAL_MATRIX_OK)
                         => Len(mine) = 1
                    /\ (mfd_primary_ \in MonotoneMethods
                        /\ mine[1].ok # WHETSTONE_ELEMENTAL_MATRIX_OK)
                         => Len(mine) = 2 /\ mine[2].method = mfd_secondary_
                    /\ thrownHere
                         => \A i \in DOMAIN mine :
                              mine[i].ok # WHETSTONE_ELEMENTAL_MATRIX_OK
                    /\ mine[Len(mine)].ok # WHETSTONE_ELEMENTAL_MATRIX_OK
                         => thrownHere]_vars

(***************************************************************************)
(* Properties of the setup (specification SpecCfg).                        *)
(***************************************************************************)
\* the "schema" arrays that say exactly CELL, FACE+CELL or NODE
ExactSchemas == {<<"cell">>, <<"face", "cell">>, <<"cell", "face">>, <<"node">>}

\* C10: configuration errors are fatal at setup time: the constructor of
\* Richards_PK throws a message unless the sublists Flow, Richards
\* Problem, Preconditioners and Solvers are all present; InitDiffusion_
\* throws a message whenever the primary or the secondary discretization
\* name is not supported or the schema is not exactly CELL, FACE+CELL or
\* NODE; setup never completes in these cases.
C10_ConfigurationErrorsFatal ==
  [][/\ Richards_PK
          => (pk_result' = "constructed"
                <=> /\ global_list'.Flow /\ global_list'.RichardsProblem
                    /\ global_list'.Preconditioners /\ global_list'.Solvers)
     /\ InitDiffusion_
          => ((\/ plist'.primary \notin PrimaryNames
               \/ (plist'.secondary # "" /\ plist'.secondary \notin SecondaryNames)
               \/ plist'.schema \notin ExactSchemas)
                => op_result' \in {PrimaryUnsupported(plist'.primary),
                                   SecondaryUnsupported(plist'.secondary),
                                   SchemaUnsupported})]_vars

(***************************************************************************)
(* Properties of UpdateMatricesMixed_ (specification SpecOp).              *)
(***************************************************************************)
\* C11 as stated: with the centered policy (no upwinding) and symmetric
\* matrices Wff, every local matrix produced by UpdateMatricesMixed_ is
\* symmetric, the row and the column of the cell unknown included.
C11_CenteredSymmetric ==
  [][(UpdateMatrices /\ upwind_ = OPERATOR_UPWIND_NONE)
       => \A c \in Cells : Symmetric(matrices'[c], NumFaces(c))]_vars

\* C11: with the centered policy and symmetric matrices Wff, the local
\* matrix is symmetric when the constraint equation is not scaled; when it
\* is scaled the face block is symmetric, the column of the cell unknown is
\* minus the row sums of Wff and the row of the cell unknown is that column
\* multiplied by the coefficient of the cell.
C11_CenteredSymmetricUnscaled ==
  [][(UpdateMatrices /\ upwind_ = OPERATOR_UPWIND_NONE)
       => \A c \in Cells :
            LET nfaces == NumFaces(c)
                A == matrices'[c]
            IN /\ ~scaled_constraint_ => Symmetric(A, nfaces)
               /\ scaled_constraint_
                    => /\ Symmetric(A, nfaces - 1)
                       /\ \A n \in 0..(nfaces - 1) :
                            A[<<nfaces, n>>] = Kc(c) * A[<<n, nfaces>>]]_vars

\* the matrices of a centered, unscaled operator with a cell coefficient
\* other than 1 have been computed
C11_Witness ==
  /\ upwind_ = OPERATOR_UPWIND_NONE /\ ~scaled_constraint_
  /\ k_cell # null /\ Kc(1) = 2
  /\ n_apply = 0
  /\ matrices[1] = UpdateMatricesMixed_(1)
  /\ matrices[1][<<0, 2>>] = matrices[1][<<2, 0>>]
  /\ matrices[1][<<0, 2>>] # 0
  /\ matrices[1][<<0, 1>>] = matrices[1][<<1, 0>>]
  /\ matrices[1][<<0, 1>>] # 0

(***************************************************************************)
(* Properties of the solver selection (specification Spec).                *)
(***************************************************************************)
\* C12: whenever InitPicard, InitSteadyState or InitTransient leaves a
\* Krylov solver configured while the matrix is not symmetric (an upwind
\* policy), that solver is GMRES; conjugate gradients is configured only
\* under the centered policy.
C12_UpwindForcesGmres ==
  [][(InitPicard \/ InitSteadyState \/ InitTransient)
       => /\ (solver' # NULL /\ ~is_matrix_symmetric') => solver' = AZ_gmres
          /\ solver' = AZ_cg => Krel_method' = FLOW_RELATIVE_PERM_CENTERED]_vars

(***************************************************************************)
(* Properties of ImproveAlgebraicConsistency (specification SpecLED).      *)
(***************************************************************************)
\* the cells that share a face with cell c
FaceNeighbours(c) ==
  {cell_get_face_adj_cell(c, RingCellFaces(c)[n]) : n \in 1..Len(RingCellFaces(c))}

\* C13: after ImproveAlgebraicConsistency the saturation of every cell lies
\* between the smallest and the largest saturation its face-neighbours held
\* before the call.
C13_LocalExtremaDiminishing ==
  [][ImproveAlgebraicConsistency
       => \A c \in RingCells :
            /\ \E c2 \in FaceNeighbours(c) : ws[c2] <= ws'[c]
            /\ \E c2 \in FaceNeighbours(c) : ws'[c] <= ws[c2]]_vars

(***************************************************************************)
(* Properties of UpdateMatricesTPFA_ (specification SpecTPFA).             *)
(***************************************************************************)
\* the tensor of cell c
TensorOf(c) == IF K_ # null THEN K_[c] ELSE UnitTensor

\* what cell c adds to the accumulated value of its face f
HalfCell(c, f) ==
  IF isZero(TensorOf(c)) THEN Zero
  ELSE Reciprocal(MassMatrixInverseTPFA(c, TensorOf(c), LocalIndex(c, f)))

\* the sum of the fractions F[x], x in S
RECURSIVE PlusSet(_, _)
PlusSet(F, S) ==
  IF S = {} THEN Zero
  ELSE LET x == CHOOSE y \in S : TRUE IN Plus(F[x], PlusSet(F, S \ {x}))

\* C15: UpdateMatricesTPFA_ inverts no zero quantity; a cell with a zero
\* tensor contributes to no face and the accumulated value of a face is the
\* sum of the half-cell contributions of its other cells; a face whose
\* accumulated value is zero receives the zero matrix; every other face
\* receives coef * [[1, -1], [-1, 1]] (one cell: [[coef]]) with coef the
\* reciprocal of the accumulated value.
C15_NoZeroInverted ==
  [][UpdateMatricesTPFA_
       => \A f \in Faces :
            /\ \A c \in CellsOf(f) :
                 ~isZero(TensorOf(c))
                   => MassMatrixInverseTPFA(c, TensorOf(c), LocalIndex(c, f)) # Zero
            /\ Ttmp'[f] # Inf
            /\ Ttmp'[f] = PlusSet([c \in CellsOf(f) |-> HalfCell(c, f)], CellsOf(f))
            /\ Ttmp'[f] = Zero
                 => \A ij \in DOMAIN face_matrices'[f] : face_matrices'[f][ij] = Zero
            /\ Ttmp'[f] # Zero
                 => LET coef == Reciprocal(Ttmp'[f])
                    IN \A ij \in DOMAIN face_matrices'[f] :
                         face_matrices'[f][ij] =
                           IF ij[1] = ij[2] THEN coef ELSE Minus(coef)]_vars

(***************************************************************************)
(* Properties of the step counter (specification Spec).                    *)
(***************************************************************************)
\* C16: every Advance that returns increases num_itrs by exactly one,
\* whatever the scheme; InitPicard, InitSteadyState and InitTransient reset
\* it to zero and nothing else decreases it; CommitState and
\* CalculateFlowDt leave it unchanged.
C16_StepCounter ==
  [][/\ ((\E dT_MPC \in DTs : Advance(dT_MPC)) /\ ~crashed')
          => num_itrs' = num_itrs + 1
     /\ (InitPicard \/ InitSteadyState \/ InitTransient) => num_itrs' = 0
     /\ (CommitState \/ CalculateFlowDt) => num_itrs' = num_itrs
     /\ num_itrs' < num_itrs
          => /\ InitPicard \/ InitSteadyState \/ InitTransient
             /\ num_itrs' = 0]_vars

\* the second BDF1 step after InitSteadyState has been counted
C16_Witness ==
  /\ ~crashed
  /\ ti_method = FLOW_TIME_INTEGRATION_BDF1
  /\ num_itrs = MaxItrs
  /\ bdf1_dae = BdfStep(bdf1_dae)
  /\ block_picard = 0
  /\ flow_status_ = FLOW_STATUS_TRANSIENT_STATE_COMPLETE
  /\ calls = <<"Advance", "bdf1_dae.bdf1_step", "bdf1_dae.commit_solution">>


Count(log, x) == Cardinality({i \in DOMAIN log : log[i] = x})

\* the position of the first occurrence of x in the log
Pos(log, x) == CHOOSE i \in DOMAIN log : log[i] = x /\ \A j \in 1..(i - 1) : log[j] # x

\* C18: an Advance of a BDF scheme with num_itrs = 0 computes the initial
\* state derivative with one evaluation of the stiffness matrices, seeds
\* the selected integrator with one set_initial_state and updates the
\* preconditioner once, all of it before the step; an Advance with
\* num_itrs > 0 does none of the three; the integrator that is seeded is the
\* one that steps, the other integrator is not touched.
C18_FirstAdvanceInitializes ==
  [][((\E d \in DTs : Advance(d)) /\ ~crashed'
        /\ ti_method \in {FLOW_TIME_INTEGRATION_BDF1, FLOW_TIME_INTEGRATION_BDF2})
       => LET log == calls'
              bdf2 == ti_method = FLOW_TIME_INTEGRATION_BDF2
              seed == IF bdf2 THEN "bdf2_dae.set_initial_state"
                      ELSE "bdf1_dae.set_initial_state"
              noseed == IF bdf2 THEN "bdf1_dae.set_initial_state"
                        ELSE "bdf2_dae.set_initial_state"
              step == IF bdf2 THEN "bdf2_dae.bdf2_step" ELSE "bdf1_dae.bdf1_step"
              nostep == IF bdf2 THEN "bdf1_dae.bdf1_step" ELSE "bdf2_dae.bdf2_step"
              stiffness == "matrix.CreateMFDstiffnessMatrices"
          IN /\ Count(log, step) = 1
             /\ Count(log, nostep) = 0
             /\ Count(log, noseed) = 0
             /\ (IF bdf2 THEN bdf2_dae' ELSE bdf1_dae') = "stepped"
             /\ (IF bdf2 THEN bdf1_dae' = bdf1_dae ELSE bdf2_dae' = bdf2_dae)
             /\ IF num_itrs = 0
                THEN /\ Count(log, "ComputeUDot") = 1
                     /\ Count(log, stiffness) = 1
                     /\ Count(log, seed) = 1
                     /\ Count(log, "update_precon") = 1
                     /\ Pos(log, "ComputeUDot") < Pos(log, stiffness)
                     /\ Pos(log, stiffness) < Pos(log, seed)
                     /\ Pos(log, seed) < Pos(log, step)
                     /\ Pos(log, "update_precon") < Pos(log, step)
                ELSE /\ Count(log, "ComputeUDot") = 0
                     /\ Count(log, stiffness) = 0
                     /\ Count(log, seed) = 0
                     /\ Count(log, "update_precon") = 0]_vars

\* the second Advance of a BDF2 phase has run: it has only taken the step
C18_Witness ==
  /\ ~crashed
  /\ num_itrs = 2
  /\ ti_method = FLOW_TIME_INTEGRATION_BDF2
  /\ bdf2_dae = "stepped"
  /\ calls = <<"Advance", "bdf2_dae.bdf2_step", "bdf2_dae.commit_solution">>

Made(x) == \E i \in DOMAIN prec_log : prec_log[i] = x

\* C19: at every moment of a ComputePreconditionerMFD call: the stiffness
\* matrices are rebuilt only after the relative permeability and the
\* boundary data were updated; the boundary conditions are applied only
\* after the stiffness matrices, the right-hand side, the gravity terms and
\* (when flag_update_ML is set) the time derivative were built; the global
\* matrices are assembled only after the boundary conditions were applied;
\* the Schur complement and the preconditioner are updated only after that
\* and only when flag_update_ML is set.
C19_OrderOfSteps ==
  LET stiffness == prec_op \o ".CreateMFDstiffnessMatrices"
      bcs == prec_op \o ".ApplyBoundaryConditions"
      assemble == prec_op \o ".AssembleGlobalMatrices"
      schur == prec_op \o ".ComputeSchurComplement"
      update == prec_op \o ".UpdatePreconditioner"
  IN /\ Made(stiffness)
          => Made("CalculateRelativePermeability") /\ Made("UpdateBoundaryConditions")
     /\ Made(bcs)
          => /\ Made(stiffness)
             /\ Made(prec_op \o ".CreateMFDrhsVectors")
             /\ Made("AddGravityFluxes_MFD")
             /\ prec_flag => Made("AddTimeDerivative_MFD")
     /\ Made("AddTimeDerivative_MFD") => prec_flag
     /\ Made(assemble) => Made(bcs)
     /\ (Made(schur) \/ Made(update)) => (prec_flag /\ Made(bcs) /\ Made(assemble))
     /\ Made(update) => Made(schur)

\* a preconditioner evaluation has been completed
C19_Witness ==
  /\ ~prec_running
  /\ prec_flag
  /\ prec_op = "preconditioner"
  /\ Made("preconditioner.UpdatePreconditioner")
  /\ n_evals > 1

\* the cells that have at least one Dirichlet or Mixed face
HasDirichletOrMixed(c) ==
  \E n \in DOMAIN CellGetFaces(c) :
    bc_model[CellGetFaces(c)[n]] \in {OPERATOR_BC_DIRICHLET, OPERATOR_BC_MIXED}

\* C21: one ApplyBCs after UpdateMatrices leaves in matrices_shadow[c], for
\* every cell c with at least one Dirichlet or Mixed face, the local matrix
\* of c as it was before any boundary modification of the call; the local
\* matrix of every cell without such a face is unchanged.
C21_ShadowHoldsOriginal ==
  [][(\E primary \in BOOLEAN : ApplyBCs(primary))
       => \A c \in Cells :
            IF HasDirichletOrMixed(c)
            THEN matrices_shadow'[c] = matrices[c]
            ELSE matrices'[c] = matrices[c]]_vars

\* ApplyBCs has run: cell 0 has a Neumann face before its Dirichlet face,
\* its local matrix was modified and its shadow is the matrix of
\* UpdateMatrices; cell 1 has a Neumann face only and keeps its matrix
C21_Witness ==
  /\ n_apply = 1
  /\ bc_model[0] = OPERATOR_BC_NEUMANN /\ bc_model[1] = OPERATOR_BC_DIRICHLET
  /\ bc_model[3] = OPERATOR_BC_NEUMANN
  /\ matrices_shadow[0] = UpdateMatricesMixed_(0)
  /\ matrices[0] # matrices_shadow[0]
  /\ matrices[1] = UpdateMatricesMixed_(1)
  /\ matrices_shadow[1] = EmptyMatrix

\* the face_get_cells of the mesh that lists the cells of every face in the
\* opposite order
FaceGetCellsExchanged(f) ==
  LET cells == FaceGetCells(f)
      ncells == Cardinality(DOMAIN cells)
  IN [i \in DOMAIN cells |-> cells[ncells - 1 - i]]

KfExchanged(c) ==
  [n \in 0..(NumFaces(c) - 1) |->
     KfOn([f \in Faces |-> FaceGetCellsExchanged(f)], c, n)]

\* the faces with two cells
SharedFaces == {f \in Faces : Cardinality(DOMAIN FaceGetCells(f)) = 2}

\* the local matrix of cell c on the mesh with the cells of the faces
\* exchanged
AcellExchanged(c) ==
  IF upwind_ = OPERATOR_UPWIND_AMANZI_SECOND_ORDER
  THEN AcellMixedWithGrad(KfWithGrad([f \in Faces |-> FaceGetCellsExchanged(f)], c), c)
  ELSE AcellMixed(KfExchanged(c), c)

\* the divisor of the entries: kc in UpdateMatricesMixed_, none in
\* UpdateMatricesMixedWithGrad_
TwinDivisor(c) == IF upwind_ = OPERATOR_UPWIND_AMANZI_SECOND_ORDER THEN 1 ELSE Kc(c)

\* the inverse mass matrix the routine uses
TwinWff(c) ==
  IF upwind_ = OPERATOR_UPWIND_AMANZI_SECOND_ORDER
  THEN MassMatrixInverseDivKScaled(c, k_cell[c]) ELSE Wff(c)

\* a shared face carries two mobility values that differ
TwinDiffers ==
  /\ upwind_ \in {OPERATOR_UPWIND_AMANZI_DIVK, OPERATOR_UPWIND_AMANZI_SECOND_ORDER}
  /\ k_twin # null
  /\ \E f \in SharedFaces : k_face[f] # k_twin[f]

\* C22 (as claimed): exchanging the first and the second cell of every
\* face leaves every local matrix that UpdateMatrices computes unchanged.
C22_OrderIndependent ==
  [][UpdateMatrices
       => \A c \in Cells : matrices'[c] = AcellExchanged(c)]_vars

\* C22 (amended): with face and twin values the cell the mesh lists first
\* for a face uses the face value and every other cell the twin value;
\* exchanging the cells of the faces leaves every local matrix unchanged
\* when no shared face carries two different values, and changes a local
\* matrix when one does.
C22_ListedOrderDecides ==
  [][UpdateMatrices
       => /\ (upwind_ \in {OPERATOR_UPWIND_AMANZI_DIVK,
                          OPERATOR_UPWIND_AMANZI_SECOND_ORDER} /\ k_twin # null)
               => \A c \in Cells : \A n \in DOMAIN CellGetFaces(c) :
                    LET f == CellGetFaces(c)[n]
                        v == IF c = FaceGetCells(f)[0] THEN k_face[f] ELSE k_twin[f]
                    IN matrices'[c][<<n, n>>] =
                         (TwinWff(c)[<<n, n>>] * v * v) \div TwinDivisor(c)
          /\ ~TwinDiffers
               => \A c \in Cells : matrices'[c] = AcellExchanged(c)
          /\ TwinDiffers
               => \E c \in Cells : matrices'[c] # AcellExchanged(c)]_vars

\* UpdateMatrices has run with different face and twin values on the shared
\* face: cell 0, listed first, used the face value and cell 1 the twin value
C22_Witness ==
  /\ TwinDiffers
  /\ upwind_ = OPERATOR_UPWIND_AMANZI_DIVK
  /\ FaceGetCells(2)[0] = 0
  /\ matrices[0] # EmptyMatrix
  /\ matrices[0][<<2, 2>>] = (Wff(0)[<<2, 2>>] * k_face[2] * k_face[2]) \div Kc(0)
  /\ matrices[1][<<0, 0>>] = (Wff(1)[<<0, 0>>] * k_twin[2] * k_twin[2]) \div Kc(1)
  /\ matrices[0][<<2, 2>>] # (Wff(0)[<<2, 2>>] * k_twin[2] * k_twin[2]) \div Kc(0)

\* the owned cells next to face f
OwnedCellsOf(f) == {c \in StripCells : \E i \in 1..2 : StripFaceCells(f)[i] = c /\ IsOwnedCell(c)}

\* C23: DeriveFaceValuesFromCellValues writes to every owned face with at
\* least one adjacent owned cell the arithmetic mean of the values of those
\* cells (the mean times their number is their sum) and to every owned face
\* without an adjacent owned cell the atmospheric pressure; the entries of
\* the other faces and the cell vector stay as they are.
C23_FaceValues ==
  [][DeriveFaceValuesFromCellValues
       => /\ \A f \in OwnedFaces :
               IF OwnedCellsOf(f) # {}
               THEN ufaces'[f][1] * Cardinality(OwnedCellsOf(f))
                      = ufaces'[f][2] * SumSet(ucells, OwnedCellsOf(f))
               ELSE ufaces'[f] = <<atm_pressure, 1>>
          /\ \A f \in StripFaces \ OwnedFaces : ufaces'[f] = ufaces[f]
          /\ ucells' = ucells]_vars

\* after the call on a mesh with two owned cells: face 0 holds the mean of
\* two different cell values, a fraction; face 1, between two cells of
\* other processes, holds the atmospheric pressure; the ghost face holds
\* what it held
C23_Witness ==
  /\ cells_owned = 2
  /\ ucells[0] = 0 /\ ucells[1] = 1
  /\ ufaces[0] = <<1, 2>>
  /\ ufaces[1] = <<atm_pressure, 1>>
  /\ ufaces[2] = <<9, 1>>

\* C24: when update_precon signals failure in ierr, Advance does not return
\* 0, does not increment the step counter and does not set the flow status
\* to TRANSIENT_STATE_COMPLETE.
C24_FailureIsReported ==
  [][(\E dT_MPC \in DTs : Advance(dT_MPC)) /\ ~crashed' /\ ierr' # <<>> /\ ierr'[1] # 0
       => /\ AdvanceReturn(ierr'[1]) # 0
          /\ num_itrs' = num_itrs
          /\ flow_status_' # FLOW_STATUS_TRANSIENT_STATE_COMPLETE]_vars

\* C25 (as claimed): no initialization changes mass_bc: InitTransient,
\* InitSteadyState and InitPicard leave it at the value CommitState has
\* accumulated.
C25_MassNeverReset ==
  [][(InitTransient \/ InitSteadyState \/ InitPicard) => mass_bc' = mass_bc]_vars

\* C25 (amended): InitSteadyState and InitPicard leave mass_bc unchanged;
\* InitTransient replaces it by the total water mass of the saturation
\* derived from the pressure of the flow state, whatever CommitState has
\* accumulated in it.
C25_MassResetByTransient ==
  [][/\ (InitSteadyState \/ InitPicard) => mass_bc' = mass_bc
     /\ InitTransient
          => mass_bc' = DeriveSaturationFromPressure(FS.pressure) * Rho]_vars

\* InitTransient has run after a CommitState that had left a flux in the
\* flow state: mass_bc is the water mass of the current saturation
C25_Witness ==
  /\ flow_status_ = FLOW_STATUS_TRANSIENT_STATE_INIT
  /\ num_itrs = 0
  /\ darcy_flux[0] # 0
  /\ water_saturation > 0
  /\ mass_bc = water_saturation * Rho

\* C28: CalculateFlowDt is a pure query: it returns the step size dT and
\* leaves dT as it was, so that a repeated call returns the same value,
\* for every scheme and every value of block_picard.
C28_PureQuery ==
  [][CalculateFlowDt
       => /\ dT' = dT
          /\ UNCHANGED <<dTnext, num_itrs, block_picard, ti_method, flow_status_,
                         solution, FS, mass_bc>>]_vars

\* C29: when "discretization secondary" is absent, the secondary method is
\* the primary one and InitDiffusion_ completes without error for every
\* supported primary name (the schema being one of the supported ones).
C29_SecondaryDefaults ==
  [][(InitDiffusion_ /\ plist'.secondary = "" /\ plist'.primary \in PrimaryNames
      /\ LocalSchema(SchemaDofs(plist'.schema, 1)) # "none")
       => /\ op_result' = "initialized"
          /\ mfd_primary_' = MethodOfName(plist'.primary)
          /\ mfd_secondary_' = MethodOfName(plist'.primary)]_vars

RowSum(A, c, n) == SumTo([m \in 0..NumFaces(c) |-> A[<<n, m>>]], NumFaces(c) + 1)

C26_RowsSumToZero ==
  [][UpdateMatrices
       => \A c \in Cells : \A n \in 0..NumFaces(c) : RowSum(matrices'[c], c, n) = 0]_vars

\* the second-order upwind has computed a local matrix from an asymmetric
\* Wff and twin values
C26_Witness ==
  /\ Wff_skew # 0
  /\ upwind_ = OPERATOR_UPWIND_AMANZI_SECOND_ORDER
  /\ k_twin # null /\ k_twin # k_face
  /\ matrices[1] # EmptyMatrix
  /\ matrices[1][<<0, 1>>] # matrices[1][<<1, 0>>]

(***************************************************************************)
(* C27: after any sequence of UpdateMatrices and ApplyBCs calls, ApplyBCs  *)
(* called twice without an UpdateMatrices in between included, UpdateFlux  *)
(* computes the face fluxes of every cell with the un-eliminated local     *)
(* matrix that the latest UpdateMatrices produced for the cell, never with *)
(* a matrix that already contains boundary modifications.                  *)
(***************************************************************************)
\* the local matrix that UpdateMatrices produces for cell c: the
\* coefficient does not change during a run, so it is the matrix of the
\* latest UpdateMatrices
LatestAcell(c) ==
  IF upwind_ = OPERATOR_UPWIND_AMANZI_SECOND_ORDER
  THEN UpdateMatricesMixedWithGrad_(c) ELSE UpdateMatricesMixed_(c)

\* the face fluxes of the solution u from the un-eliminated matrices
LatestFlux(u) ==
  FluxData([c \in Cells |-> LatestAcell(c)], [c \in Cells |-> EmptyMatrix], u)

C27_FluxFromLatestMatrices ==
  [][\A u \in FluxSolutions : UpdateFlux(u) => flux_data' = LatestFlux(u)]_vars
====
